---- MODULE Spec2Model ----
(***************************************************************************)
(* A model of rchk's per-function checker of pointer-protection bugs: the  *)
(* work-list engine and the adaptive refinement loop (bcheck), the fresh-  *)
(* variables transfer functions (freshvars, in its current and its earlier *)
(* form) and the conditional-unprotect recogniser.                         *)
(*                                                                         *)
(* An instruction of the analysed function is a record that holds the      *)
(* facts the checker reads off the LLVM value: its opcode, the callee, the *)
(* shape of its operands and users, the liveness sets computed for it.     *)
(***************************************************************************)
EXTENDS Integers, Sequences, FiniteSets, TLC

\* ------------------------------------------------------------------ bounds

\* The protect-stack cap and the per-function state cap are set outside the
\* checked sources (freshvars.h, the build's BCHECK_MAX_STATES); the model
\* runs them scaled down, which keeps every case at the cap reachable.
MAX_PSTACK_SIZE == 2

MAX_STATES == 5

\* The largest constant count an unprotect call of the input carries.
MaxUnprotect == 2

\* A free instruction sequence keeps the balance depth within -MaxDepth ..
\* MaxDepth and the protect counter within 0 .. MaxDepth.
MaxDepth == 3

\* The length of the free instruction sequences.
MaxSteps == 4

\* The calls the scanner goes through, and the arguments of a call.
MaxCalls == 2

MaxArgs == 2

\* ------------------------------------------------------------------- slots

\* Local slots (AllocaInst*), NoVar is the NULL slot / an anonymous entry.
\* Slots 1, 2 and 3 are SEXP locals, 4, 5 and 6 are int locals.
Slots == {1, 2, 3, 4, 5, 6}

NoVar == 0

\* isVarCheckedFresh's verdict per slot: slot 3 has a use that is neither a
\* load nor a store (its address is taken).
OnlyLoadStoreUses == {1, 2, 4, 5, 6}

\* std::map<AllocaInst*, ...> iterates in address order; ord gives each
\* slot's rank in it.
KeysInOrder(S, ord) ==
    LET n == Cardinality(S)
    IN  [i \in 1..n |->
            CHOOSE v \in S : Cardinality({w \in S : ord[w] < ord[v]}) = i - 1]

\* Two address orders a process may give the slots: the order they were
\* made in, and the reverse.
AddrOrder == [v \in Slots |-> v]

AddrOrderReversed == [v \in Slots |-> 0 - v]

\* ---------------------------------------------------------------- messages

\* A line-info record: the message and the source line of its instruction
\* (line 0: the message was given no instruction).
LineInfo(kind, v, line) == [kind |-> kind, var |-> v, line |-> line]

\* -------------------------------------------------------------- fresh vars

\* FreshVarsTy: vars maps a slot to its protect count, pstack is the
\* abstract protect stack, condMsgs the pending conditional messages of a
\* slot.  condMsgs is an unordered map: the model keeps it as the node list
\* the container iterates, a key appearing once.
EmptyFreshVars ==
    [vars |-> <<>>, condMsgs |-> <<>>, pstack |-> <<>>, confused |-> FALSE]

InVars(vars, v) == v \in DOMAIN vars

VarsErase(vars, v) == [w \in DOMAIN vars \ {v} |-> vars[w]]

VarsPut(vars, v, c) ==
    [w \in DOMAIN vars \cup {v} |-> IF w = v THEN c ELSE vars[w]]

CondHas(cm, v) == \E i \in 1..Len(cm) : cm[i].var = v

CondGet(cm, v) == cm[CHOOSE i \in 1..Len(cm) : cm[i].var = v].msgs

CondKeys(cm) == {cm[i].var : i \in 1..Len(cm)}

CondSelect(cm, keep) ==
    LET F[i \in 0..Len(cm)] ==
            IF i = 0 THEN <<>>
            ELSE IF cm[i].var \in keep THEN Append(F[i - 1], cm[i])
            ELSE F[i - 1]
    IN  F[Len(cm)]

\* A faulty variant of CondErase, which leaves the messages of the slot:
CondEraseNothing(cm, v) == cm

CondErase(cm, v) == CondSelect(cm, CondKeys(cm) \ {v})

\* unordered_map::insert of a new key: the node is linked at the head of the
\* container's node list (libstdc++, the key's bucket being empty), so the
\* iteration order records the order of insertion.
CondInsert(cm, v, m) == <<[var |-> v, msgs |-> {m}]>> \o cm

CondAdd(cm, v, m) ==
    [i \in 1..Len(cm) |->
        IF cm[i].var = v THEN [var |-> v, msgs |-> cm[i].msgs \cup {m}]
        ELSE cm[i]]

\* The unordered_map's operator==: the same keys with equal values,
\* whatever the iteration order.
CondEqual(a, b) ==
    /\ CondKeys(a) = CondKeys(b)
    /\ \A v \in CondKeys(a) : CondGet(a, v) = CondGet(b, v)

\* What the transfer functions thread through: the fresh-vars state, the
\* line messenger's buffer, the refinable tally, the checked-vars cache,
\* whether a myassert has failed (the process aborts), and the address
\* order of the slots in this process.
Ctx(fv, msgs, ref, cache, addr) ==
    [fv |-> fv, msgs |-> msgs, refinableInfos |-> ref, cache |-> cache,
     aborted |-> FALSE, addr |-> addr]

\* ------------------------------------------------------------ instructions

\* An operand of a call: load is the slot when the operand is a load of a
\* local slot; allocator: the operand is itself a call to a possible
\* allocator; calleeSafe: the callee is callee-safe for this parameter;
\* sexp: the parameter has the SEXP type (or lies in the varargs);
\* storedTo: the slots some store instruction writes this operand to.
Operand(isLoad, load, allocator, calleeSafe, sexp, oneUse, storedTo) ==
    [isLoad |-> isLoad, load |-> load, allocator |-> allocator,
     calleeSafe |-> calleeSafe, sexp |-> sexp, oneUse |-> oneUse,
     storedTo |-> storedTo]

LoadOperand(v) == Operand(TRUE, v, FALSE, FALSE, TRUE, TRUE, {})

AllocOperand(safe) == Operand(FALSE, NoVar, TRUE, safe, TRUE, TRUE, {})

\* A user of a value: a call (with its resolved callee, its argument count,
\* whether the callee is a setter, the slot its first argument loads, and
\* whether its second argument is the value), a store (is the store itself
\* its value operand, is its address a local slot), or something else.
User(kind, called, name, nargs, setter, firstArg, secondIsValue,
     storeValueIsUser, ptrIsSlot) ==
    [kind |-> kind, called |-> called, name |-> name, nargs |-> nargs,
     setter |-> setter, firstArg |-> firstArg,
     secondIsValue |-> secondIsValue,
     storeValueIsUser |-> storeValueIsUser, ptrIsSlot |-> ptrIsSlot]

CallUser(name, nargs, setter, firstArg, secondIsValue) ==
    User("call", TRUE, name, nargs, setter, firstArg, secondIsValue,
         FALSE, FALSE)

\* A store instruction has no result: it is never its own value operand.
StoreUser(ptrIsSlot) ==
    User("store", FALSE, "", 0, FALSE, NoVar, FALSE, FALSE, ptrIsSlot)

\* The fields no handler reads for an instruction of another shape keep
\* these values.
Instr ==
    [op |-> "other", line |-> 1,
     \* a call: the resolved callee ("" when there is none) and what the
     \* call-graph summaries say of it
     callee |-> "", allocating |-> FALSE, protectsArguments |-> FALSE,
     calleeSafeFun |-> FALSE, args |-> <<>>,
     \* protect, re-protect, preserve: how the slot behind argument 0 is
     \* found (x, x = foo(), an enclosing setter, x = PROTECT(foo()))
     argLoad |-> NoVar, argStoredTo |-> NoVar, setterFirstArgs |-> {},
     resStoredTo |-> NoVar,
     \* unprotect: the shape of its argument
     unpKind |-> "other", unpConst |-> 0, unpVar |-> NoVar,
     \* unprotect(guard == 0 ? A : B): the select recognised behind the
     \* argument (selGuard is NoVar when the pattern does not match)
     selGuard |-> NoVar, selTrueWhenEqual |-> TRUE, selTrue |-> 0,
     selFalse |-> 0,
     \* a load or a store: the local slot it reads or writes (ptr says what
     \* a store writes to), the users of the loaded value and what is
     \* known of the call that consumes it
     var |-> NoVar, ptr |-> "other", users |-> <<>>,
     consResolved |-> FALSE, consAllocating |-> FALSE,
     consProtectsArguments |-> FALSE, consCalleeProtectFun |-> FALSE,
     consArgIdx |-> 0, consParams |-> 0, consCalleeProtectArg |-> FALSE,
     consCalleeSafeArg |-> FALSE,
     \* a store: the node-stack pattern, and the stored value
     nodeStackVar |-> NoVar, aliased |-> {},
     valKind |-> "other", valVar |-> NoVar, valConst |-> 0,
     valCallee |-> "", valAllocator |-> FALSE, valUsers |-> <<>>,
     \* liveness after the instruction
     possiblyUsed |-> {}, possiblyKilled |-> {}, definitelyUsed |-> {}]

\* ------------------------------------------- fresh vars: the helpers

\* Sequencing of statements: the state v a statement leaves is computed
\* once and handed to what follows it.
Then(v, K(_)) == CHOOSE r \in {K(x) : x \in {v}} : TRUE

\* Do not report and do not check anything once confused by the code.
QUIET_WHEN_CONFUSED == TRUE

\* DelayedLineMessenger::flush: the buffered lines go to the line messenger.
Flush(msgs, cm, v) == msgs \cup CondGet(cm, v)

\* A faulty variant of pruneFreshVars, which prints no pending message:
pruneDeadOnly(in, r) ==
    [r EXCEPT
       !.fv.vars = [w \in DOMAIN @ \cap in.possiblyUsed |-> @[w]],
       !.fv.condMsgs =
           CondSelect(@, CondKeys(@) \ (DOMAIN r.fv.vars \ in.possiblyUsed))]

\* pruneFreshVars: walks vars; a slot that is not possibly used loses its
\* entry and its conditional messages, a slot that is not possibly killed
\* has its conditional messages printed.
pruneFreshVars(in, r) ==
    LET keys == KeysInOrder(DOMAIN r.fv.vars, r.addr)
        F[i \in 0..Len(keys)] ==
            IF i = 0 THEN r
            ELSE LET q == F[i - 1]
                     var == keys[i]
                 IN  IF var \notin in.possiblyUsed
                     THEN [q EXCEPT !.fv.vars = VarsErase(@, var),
                                    !.fv.condMsgs = CondErase(@, var)]
                     ELSE IF var \notin in.possiblyKilled
                              /\ CondHas(q.fv.condMsgs, var)
                     THEN [q EXCEPT
                             !.msgs = Flush(@, q.fv.condMsgs, var),
                             !.refinableInfos = @ + 1,
                             !.fv.condMsgs = CondErase(@, var)]
                     ELSE q
    IN  F[Len(keys)]

\* A faulty variant of unprotectAll, which empties the stack and leaves the
\* protect counts:
unprotectAllKeepingCounts(fv) == [fv EXCEPT !.pstack = <<>>]

unprotectAll(fv) ==
    [fv EXCEPT !.pstack = <<>>,
               !.vars = [v \in DOMAIN fv.vars |-> 0]]

\* A faulty variant of issueConditionalMessage, which forgets the message
\* of a slot that is not definitely used:
issueMessageWhenDefinitelyUsed(in, var, r, kind) ==
    IF var \in in.definitelyUsed
    THEN [r EXCEPT !.msgs = @ \cup {LineInfo(kind, var, in.line)},
                   !.refinableInfos = @ + 1]
    ELSE r

\* issueConditionalMessage: printed at once when the slot is definitely
\* used after the instruction, kept with the slot otherwise.
issueConditionalMessage(in, var, r, kind) ==
    LET m == LineInfo(kind, var, in.line)
    IN  IF var \in in.definitelyUsed
        THEN [r EXCEPT !.msgs = @ \cup {m}, !.refinableInfos = @ + 1]
        ELSE IF ~CondHas(r.fv.condMsgs, var)
        THEN [r EXCEPT !.fv.condMsgs = CondInsert(@, var, m)]
        ELSE [r EXCEPT !.fv.condMsgs = CondAdd(@, var, m)]

\* A faulty variant of isVarCheckedFresh, which lets every slot pass.
everyVarChecked(var) == TRUE

\* isVarCheckedFresh(var): every user of the slot is a load or a store.
isVarCheckedFresh(var) == var \in OnlyLoadStoreUses

\* isVarCheckedFresh(var, cache, msg), the effect: the verdict is cached,
\* and a slot that fails is announced when it is first looked up.
checkedFreshLookup(var, r) ==
    IF var \in r.cache THEN r
    ELSE [r EXCEPT
            !.cache = @ \cup {var},
            !.msgs = IF isVarCheckedFresh(var) THEN @
                     ELSE @ \cup {LineInfo("ignoring variable", var, 0)}]

\* A faulty variant of unprotectOne, which pops the entry and leaves the
\* protect counts alone: RoundTripRestoresTracked rests on the decrement.
unprotectOneKeepingCount(r) ==
    [r EXCEPT !.fv.pstack = SubSeq(@, 1, Len(@) - 1)]

\* unprotectOne: pops the top entry; a slot in vars has its protect count
\* decremented, a count that would go negative is set to zero.
unprotectOne(r) ==
    LET n == Len(r.fv.pstack)
        var == r.fv.pstack[n]
        q == [r EXCEPT !.fv.pstack = SubSeq(@, 1, n - 1)]
    IN  IF var = NoVar THEN q
        ELSE IF InVars(q.fv.vars, var)
        THEN LET nProtects == q.fv.vars[var] - 1
             IN  IF nProtects < 0
                 THEN [q EXCEPT !.fv.vars[var] = 0,
                                !.refinableInfos = @ + 1]
                 ELSE [q EXCEPT !.fv.vars[var] = nProtects]
        ELSE q

\* unprotectOne, k times.
unprotectTimes(r, k) ==
    LET F[i \in 0..k] == IF i = 0 THEN r ELSE unprotectOne(F[i - 1])
    IN  F[k]

\* ------------------------------------------- fresh vars: handleCall

\* The balance state of a function's entry (StateWithBalanceTy).
InitBalance ==
    [depth |-> 0, count |-> 0, countState |-> "NONE", counterVar |-> NoVar,
     savedDepth |-> -1, topSaveVar |-> NoVar, confused |-> FALSE]

\* The slot behind R_PreserveObject's argument: PreserveObject(x),
\* PreserveObject(x = foo()), x = PreserveObject(foo()).
preservedVar(in) ==
    IF in.argLoad # NoVar THEN in.argLoad
    ELSE IF in.argStoredTo # NoVar THEN in.argStoredTo
    ELSE in.resStoredTo

\* The slot behind the argument of a protect call: PROTECT(x); else
\* PROTECT(x = foo()), which a setter that takes the protect call's result
\* and has a first argument that is not fresh turns into an implicit
\* protection of x (x leaves vars, no slot is found); else x = PROTECT(foo()).
protectedVar(in, vars) ==
    LET viaStore == in.argLoad = NoVar /\ in.argStoredTo # NoVar
        setterWins ==
            /\ viaStore
            /\ \E firstArg \in in.setterFirstArgs :
                  /\ firstArg # in.argStoredTo
                  /\ (~InVars(vars, firstArg) \/ vars[firstArg] > 0)
        var == IF in.argLoad # NoVar THEN in.argLoad
               ELSE IF setterWins THEN NoVar
               ELSE in.argStoredTo
    IN  [var |-> IF var = NoVar THEN in.resStoredTo ELSE var,
         vars |-> IF setterWins THEN VarsErase(vars, in.argStoredTo)
                  ELSE vars]

\* handleCall, the calls it knows by name (not taken when confused): the
\* result says whether handleCall returns there.
Return(r) == [r |-> r, ret |-> TRUE]

Continue(r) == [r |-> r, ret |-> FALSE]

handlePreserve(in, r) ==
    LET var == preservedVar(in)
    IN  IF var # NoVar THEN [r EXCEPT !.fv.vars = VarsErase(@, var)] ELSE r

\* A faulty variant of handleProtect, without the test of the cap:
\* PstackWithinCap rests on that test.
handleProtectUncapped(in, r0) ==
    Continue([r0 EXCEPT !.fv.pstack = Append(@, in.argLoad)])

\* A faulty variant of handleProtect, which tests the depth of the stack
\* before it looks for a re-protect:
handleProtectCapFirst(in, r0) ==
    LET found == protectedVar(in, r0.fv.vars)
        r1 == [r0 EXCEPT !.fv.vars = found.vars]
        r == IF found.var # NoVar THEN checkedFreshLookup(found.var, r1)
             ELSE r1
        var == IF found.var # NoVar /\ ~isVarCheckedFresh(found.var)
               THEN NoVar ELSE found.var
    IN  IF Len(r.fv.pstack) = MAX_PSTACK_SIZE
        THEN Return([r EXCEPT
                !.fv = [unprotectAll(@) EXCEPT !.confused = TRUE],
                !.refinableInfos = @ + 1,
                !.msgs = @ \cup {LineInfo("protect stack is too deep",
                                          NoVar, 0)}])
        ELSE IF in.callee = "R_Reprotect"
        THEN IF var = NoVar THEN Return(r)
             ELSE IF InVars(r.fv.vars, var) /\ r.fv.vars[var] > 0
             THEN Return(r)
             ELSE Return([r EXCEPT !.fv.vars = VarsPut(@, var, 1)])
        ELSE IF var # NoVar
        THEN Return([r EXCEPT
                !.fv.pstack = Append(@, var),
                !.fv.vars = IF InVars(@, var) THEN VarsPut(@, var, @[var] + 1)
                            ELSE VarsPut(@, var, 1)])
        ELSE Continue([r EXCEPT !.fv.pstack = Append(@, NoVar)])

handleProtect(in, r0) ==
    LET found == protectedVar(in, r0.fv.vars)
        r1 == [r0 EXCEPT !.fv.vars = found.vars]
        r == IF found.var # NoVar THEN checkedFreshLookup(found.var, r1)
             ELSE r1
        var == IF found.var # NoVar /\ ~isVarCheckedFresh(found.var)
               THEN NoVar ELSE found.var
    IN  IF in.callee = "R_Reprotect"
        THEN IF var = NoVar THEN Return(r)
             ELSE IF InVars(r.fv.vars, var)
             THEN IF r.fv.vars[var] > 0 THEN Return(r)
                  ELSE Return([r EXCEPT !.fv.vars[var] = 1])
             ELSE Return([r EXCEPT !.fv.vars = VarsPut(@, var, 1)])
        ELSE IF Len(r.fv.pstack) = MAX_PSTACK_SIZE
        THEN Return([r EXCEPT
                !.fv = [unprotectAll(@) EXCEPT
                          !.confused = IF QUIET_WHEN_CONFUSED THEN TRUE
                                       ELSE @],
                !.refinableInfos = @ + 1,
                !.msgs = @ \cup {LineInfo("protect stack is too deep",
                                          NoVar, 0)}])
        ELSE IF var # NoVar
        THEN Return([r EXCEPT
                !.fv.pstack = Append(@, var),
                !.fv.vars = IF InVars(@, var) THEN VarsPut(@, var, @[var] + 1)
                            ELSE VarsPut(@, var, 1)])
        ELSE Continue([r EXCEPT !.fv.pstack = Append(@, NoVar)])

\* A faulty variant of handleUnprotect, which empties the protect stack
\* when asked to unprotect more than it holds:
handleUnprotectEmptying(in, r, balance) ==
    LET known == \/ in.unpKind = "const"
                 \/ /\ in.unpKind = "load" /\ in.unpVar # NoVar
                    /\ balance.counterVar = in.unpVar
                    /\ balance.countState = "EXACT"
        k == IF in.unpKind = "const" THEN in.unpConst ELSE balance.count
    IN  IF known /\ k <= Len(r.fv.pstack)
        THEN Continue(unprotectTimes(r, k))
        ELSE Return([r EXCEPT
                !.msgs = @ \cup {LineInfo(IF known
                                          THEN "attempt to unprotect more items than protected"
                                          ELSE "unsupported form of unprotect",
                                          NoVar, in.line)},
                !.refinableInfos = IF known THEN @ + 1 ELSE @,
                !.fv = [unprotectAll(@) EXCEPT !.confused = TRUE]])

handleUnprotect(in, r, balance) ==
    LET byCounter == /\ in.unpKind = "load"
                     /\ in.unpVar # NoVar
                     /\ balance.counterVar = in.unpVar
                     /\ balance.countState = "EXACT"
        haveCount == byCounter \/ in.unpKind = "const"
        unprotectCount == IF in.unpKind = "const" THEN in.unpConst
                          ELSE balance.count
    IN  IF haveCount
        THEN IF unprotectCount > Len(r.fv.pstack)
             THEN Return([r EXCEPT
                     !.msgs = @ \cup {LineInfo("attempt to unprotect more items than protected",
                                               NoVar, in.line)},
                     !.refinableInfos = @ + 1,
                     !.fv.confused = IF QUIET_WHEN_CONFUSED THEN TRUE ELSE @])
             ELSE Continue(unprotectTimes(r, unprotectCount))
        ELSE Return([r EXCEPT
                !.msgs = @ \cup {LineInfo("unsupported form of unprotect",
                                          NoVar, in.line)},
                !.fv = [unprotectAll(@) EXCEPT
                          !.confused = IF QUIET_WHEN_CONFUSED THEN TRUE
                                       ELSE @]])

IsProtectCall(name) ==
    name \in {"Rf_protect", "R_ProtectWithIndex", "R_Reprotect"}

handleKnownCall(in, r, balance) ==
    LET r1 == IF in.callee = "R_PreserveObject" THEN handlePreserve(in, r)
              ELSE r
    IN  IF IsProtectCall(in.callee) THEN handleProtect(in, r1)
        ELSE IF in.callee = "Rf_unprotect" THEN handleUnprotect(in, r1, balance)
        ELSE Continue(r1)

\* The slots passed to the call: foo(x), foo(x = bar()).
passedVars(in) ==
    UNION {LET arg == in.args[i]
           IN  IF ~arg.sexp THEN {}
               ELSE IF arg.isLoad
               THEN (IF arg.load # NoVar THEN {arg.load} ELSE {})
               ELSE IF arg.oneUse THEN {}
               ELSE arg.storedTo : i \in 1..Len(in.args)}

\* handleCall, the call to an allocating function: an argument allocated
\* by a possible allocator is reported (also when confused); then vars is
\* pruned and every slot left with protect count 0 that is not passed to
\* the call gets a (conditional) message.
reportAllocatingArguments(in, r) ==
    IF ~in.protectsArguments /\ ~in.calleeSafeFun
    THEN LET bad == {i \in 1..Len(in.args) :
                        in.args[i].allocator /\ ~in.args[i].calleeSafe}
         IN  [r EXCEPT
                !.msgs = IF bad = {} THEN @
                         ELSE @ \cup {LineInfo("calling allocating function with argument allocated",
                                               NoVar, in.line)},
                !.refinableInfos = @ + Cardinality(bad)]
    ELSE r

\* A faulty variant of reportUnprotectedVars, which does not look at the
\* protect count:
reportUnprotectedVarsAnyCount(in, r) ==
    LET keys == KeysInOrder(DOMAIN r.fv.vars, r.addr)
        passed == passedVars(in)
        F[i \in 0..Len(keys)] ==
            IF i = 0 THEN r
            ELSE IF keys[i] \in passed THEN F[i - 1]
            ELSE issueConditionalMessage(in, keys[i], F[i - 1],
                                         "unprotected variable")
    IN  F[Len(keys)]

reportUnprotectedVars(in, r) ==
    LET keys == KeysInOrder(DOMAIN r.fv.vars, r.addr)
        passed == passedVars(in)
        F[i \in 0..Len(keys)] ==
            IF i = 0 THEN r
            ELSE LET q == F[i - 1]
                     var == keys[i]
                 IN  IF q.fv.vars[var] > 0 THEN q
                     ELSE IF var \in passed THEN q
                     ELSE issueConditionalMessage(in, var, q,
                                                  "unprotected variable")
    IN  F[Len(keys)]

reportAfterPruning(in, r) ==
    IF DOMAIN r.fv.vars # {} THEN reportUnprotectedVars(in, r) ELSE r

\* A faulty variant of handleAllocatingCall, which goes on to the pruning
\* and to the report of unprotected variables when confused:
\* ConfusedGivesOnlyArgumentMessages rests on the return.
handleAllocatingCallWhenConfused(in, r, confused) ==
    IF ~in.allocating THEN r
    ELSE Then(reportAllocatingArguments(in, r),
              LAMBDA reported :
                  Then(pruneFreshVars(in, reported),
                       LAMBDA pruned : reportAfterPruning(in, pruned)))

handleAllocatingCall(in, r, confused) ==
    IF ~in.allocating THEN r
    ELSE IF confused THEN reportAllocatingArguments(in, r)
    ELSE Then(reportAllocatingArguments(in, r),
              LAMBDA reported :
                  Then(pruneFreshVars(in, reported),
                       LAMBDA pruned : reportAfterPruning(in, pruned)))

handleCall(in, r, balance) ==
    IF in.op # "call" \/ in.callee = "" THEN r
    ELSE IF QUIET_WHEN_CONFUSED /\ r.fv.confused
    THEN handleAllocatingCall(in, r, TRUE)
    ELSE Then(handleKnownCall(in, r, balance),
              LAMBDA known :
                  IF known.ret THEN known.r
                  ELSE handleAllocatingCall(in, known.r, FALSE))

\* ------------------------------------- fresh vars: handleLoad, handleStore

\* handleLoad's walk over the users of the loaded value: the slot stops
\* being fresh when a setter takes it beside a first argument that is not
\* fresh, or when the value is stored to something that is no local slot.
implicitlyProtectedByUser(u, var, vars) ==
    \/ /\ u.kind = "call"
       /\ u.called
       /\ u.nargs > 1 /\ u.setter
       /\ u.firstArg # NoVar
       /\ u.firstArg # var
       /\ (~InVars(vars, u.firstArg) \/ vars[u.firstArg] > 0)
    \/ /\ u.kind = "store"
       /\ u.storeValueIsUser
       /\ ~u.ptrIsSlot

handleLoad(in, r0) ==
    IF QUIET_WHEN_CONFUSED /\ r0.fv.confused THEN r0
    ELSE IF in.op # "load" THEN r0
    ELSE IF in.var = NoVar THEN r0
    ELSE
    LET var == in.var
        r == IF CondHas(r0.fv.condMsgs, var)
             THEN [r0 EXCEPT !.msgs = Flush(@, r0.fv.condMsgs, var),
                             !.refinableInfos = @ + 1,
                             !.fv.condMsgs = CondErase(@, var)]
             ELSE r0
    IN  IF ~InVars(r.fv.vars, var) THEN r
        ELSE
        LET nProtects == r.fv.vars[var]
            erased == \E i \in 1..Len(in.users) :
                         implicitlyProtectedByUser(in.users[i], var, r.fv.vars)
            r1 == IF erased THEN [r EXCEPT !.fv.vars = VarsErase(@, var)]
                  ELSE r
        IN  IF Len(in.users) # 1 THEN r1
            ELSE IF \/ ~in.consResolved
                    \/ ~in.consAllocating
                    \/ in.consProtectsArguments
                    \/ in.consCalleeProtectFun THEN r1
            ELSE IF nProtects > 0 THEN r1
            ELSE IF in.consArgIdx < in.consParams /\ in.consCalleeProtectArg
            THEN r1
            ELSE
            LET r2 == IF in.consArgIdx >= in.consParams
                         \/ ~in.consCalleeSafeArg
                      THEN [r1 EXCEPT
                              !.msgs = @ \cup {LineInfo("calling allocating function with a fresh pointer",
                                                        var, in.line)},
                              !.refinableInfos = @ + 1]
                      ELSE r1
            IN  issueConditionalMessage(in, var, r2,
                    "may destroy its unprotected argument")

\* A faulty variant of handleStackTopStore, which pops one entry whatever
\* the saved depth is.
handleStackTopStorePopOne(in, r, balance) ==
    IF in.valKind = "load" /\ in.valVar # NoVar
       /\ balance.topSaveVar = in.valVar
    THEN IF balance.savedDepth < 0 THEN [r EXCEPT !.aborted = TRUE]
         ELSE IF balance.savedDepth > Len(r.fv.pstack)
         THEN [r EXCEPT
                 !.msgs = @ \cup {LineInfo("attempt to restore protection stack to higher depth",
                                           NoVar, in.line)},
                 !.fv.confused = TRUE]
         ELSE IF r.fv.pstack = <<>> THEN r
         ELSE unprotectTimes(r, 1)
    ELSE [r EXCEPT
            !.msgs = @ \cup {LineInfo("manipulates PPStackTop directly",
                                      NoVar, in.line)},
            !.fv.confused = TRUE]

\* handleStore, a store to R_PPStackTop: the restore of the saved top pops
\* the protect stack down to the saved depth.
handleStackTopStore(in, r, balance) ==
    IF in.valKind = "load" /\ in.valVar # NoVar
       /\ balance.topSaveVar = in.valVar
    THEN LET newDepth == balance.savedDepth
             curDepth == Len(r.fv.pstack)
         IN  IF newDepth < 0 THEN [r EXCEPT !.aborted = TRUE]
             ELSE IF newDepth > curDepth
             THEN [r EXCEPT
                     !.msgs = @ \cup {LineInfo("attempt to restore protection stack to higher depth",
                                               NoVar, in.line)},
                     !.fv.confused = IF QUIET_WHEN_CONFUSED THEN TRUE ELSE @]
             ELSE IF newDepth = curDepth THEN r
             ELSE unprotectTimes(r, curDepth - newDepth)
    ELSE [r EXCEPT
            !.msgs = @ \cup {LineInfo("manipulates PPStackTop directly",
                                      NoVar, in.line)},
            !.fv.confused = IF QUIET_WHEN_CONFUSED THEN TRUE ELSE @]

\* handleStore, the walk over the other users of a stored allocator
\* result: "protect" when a protect call takes it (handleCall does the
\* work), "setter" when a setter with a first argument that is not fresh
\* protects it implicitly, "none" otherwise.  The first user that decides
\* wins.
storedValueConsumer(users, vars) ==
    LET verdict(u) ==
            IF u.kind = "call" /\ u.called
            THEN IF u.name \in {"Rf_protect", "Rf_protectWithIndex",
                                "R_Reprotect"} THEN "protect"
                 ELSE IF /\ u.nargs > 1 /\ u.setter
                         /\ u.firstArg # NoVar
                         /\ (~InVars(vars, u.firstArg) \/ vars[u.firstArg] > 0)
                         /\ ~u.secondIsValue THEN "setter"
                 ELSE "none"
            ELSE "none"
        F[i \in 0..Len(users)] ==
            IF i = 0 THEN "none"
            ELSE IF F[i - 1] # "none" THEN F[i - 1]
            ELSE verdict(users[i])
    IN  F[Len(users)]

handleSlotStore(in, r0) ==
    LET var == in.var
        r1 == checkedFreshLookup(var, r0)
    IN  IF ~isVarCheckedFresh(var) THEN r1
        ELSE
        LET r == [r1 EXCEPT !.fv.condMsgs = CondErase(@, var)]
            fresh == [r EXCEPT !.fv.vars = VarsPut(@, var, 0)]
            unfresh == [r EXCEPT !.fv.vars = VarsErase(@, var)]
            consumer == storedValueConsumer(in.valUsers, r.fv.vars)
            dvars == in.valVar
            rd == IF in.valKind = "derived" /\ dvars # NoVar
                  THEN checkedFreshLookup(dvars, r) ELSE r
        IN  IF in.valCallee \in {"Rf_protect", "Rf_protectWithIndex",
                                 "Rf_Reprotect"} THEN r
            ELSE IF in.valCallee # "" /\ in.valAllocator
            THEN IF consumer = "protect" THEN r
                 ELSE IF consumer = "setter" THEN unfresh
                 ELSE fresh
            ELSE IF /\ in.valKind = "derived" /\ dvars # NoVar
                    /\ isVarCheckedFresh(dvars)
                    /\ InVars(rd.fv.vars, dvars) /\ rd.fv.vars[dvars] = 0
            THEN [rd EXCEPT !.fv.vars = VarsPut(@, var, 0)]
            ELSE [rd EXCEPT !.fv.vars = VarsErase(@, var)]

\* A faulty variant of handleStore: a store is handled in a confused state
\* as in any other.
handleStoreWhenConfused(in, r, balance) ==
    IF in.nodeStackVar # NoVar
    THEN [r EXCEPT !.fv.vars =
            [w \in DOMAIN @ \ ({in.nodeStackVar} \cup in.aliased) |-> @[w]]]
    ELSE IF in.op # "store" THEN r
    ELSE IF in.ptr = "ppStackTop" THEN handleStackTopStore(in, r, balance)
    ELSE IF in.ptr # "slot" THEN r
    ELSE handleSlotStore(in, r)

handleStore(in, r, balance) ==
    IF QUIET_WHEN_CONFUSED /\ r.fv.confused THEN r
    ELSE IF in.nodeStackVar # NoVar
    THEN [r EXCEPT !.fv.vars =
            [w \in DOMAIN @ \ ({in.nodeStackVar} \cup in.aliased) |-> @[w]]]
    ELSE IF in.op # "store" THEN r
    ELSE IF in.ptr = "ppStackTop" THEN handleStackTopStore(in, r, balance)
    ELSE IF in.ptr # "slot" THEN r
    ELSE handleSlotStore(in, r)

handleFreshVarsForNonTerminator(in, r, balance) ==
    Then(handleCall(in, r, balance),
         LAMBDA called :
             Then(handleLoad(in, called),
                  LAMBDA loaded : handleStore(in, loaded, balance)))

\* --------------------------------- fresh vars, the earlier implementation

\* pruneFreshVars: a slot that is not live loses its entry and its
\* conditional messages (liveness is one set of live slots here).
pruneFreshVarsOld(in, r) ==
    [r EXCEPT
       !.fv.vars = [w \in DOMAIN @ \cap in.possiblyUsed |-> @[w]],
       !.fv.condMsgs = CondSelect(@, CondKeys(@) \ (DOMAIN r.fv.vars \ in.possiblyUsed))]

handleProtectOld(in, r) ==
    LET var == preservedVar(in)
    IN  IF Len(r.fv.pstack) = MAX_PSTACK_SIZE
        THEN [r EXCEPT
                !.fv = unprotectAll(@),
                !.refinableInfos = @ + 1,
                !.msgs = @ \cup {LineInfo("protect stack is too deep",
                                          NoVar, in.line)}]
        ELSE IF var # NoVar
        THEN [r EXCEPT
                !.fv.pstack = Append(@, var),
                !.fv.vars = IF InVars(@, var) THEN VarsPut(@, var, @[var] + 1)
                            ELSE VarsPut(@, var, 1)]
        ELSE [r EXCEPT !.fv.pstack = Append(@, NoVar)]

\* One round of unprotect's loop: an anonymous top entry is skipped and
\* stays on the stack, a slot entry is popped and its protect count
\* decremented (a count that would go negative is reported and set to zero).
unprotectRoundOld(in, r) ==
    LET n == Len(r.fv.pstack)
        var == r.fv.pstack[n]
    IN  IF var = NoVar THEN r
        ELSE LET q == [r EXCEPT !.fv.pstack = SubSeq(@, 1, n - 1)]
             IN  IF InVars(q.fv.vars, var)
                 THEN IF q.fv.vars[var] - 1 < 0
                      THEN [q EXCEPT
                              !.fv.vars[var] = 0,
                              !.msgs = @ \cup {LineInfo("protect count went negative",
                                                        var, in.line)},
                              !.refinableInfos = @ + 1]
                      ELSE [q EXCEPT !.fv.vars[var] = @ - 1]
                 ELSE q

handleUnprotectOld(in, r) ==
    IF in.unpKind = "const"
    THEN IF in.unpConst > Len(r.fv.pstack)
         THEN [r EXCEPT
                 !.msgs = @ \cup {LineInfo("attempt to unprotect more items than protected",
                                           NoVar, in.line)},
                 !.refinableInfos = @ + 1]
         ELSE LET F[i \in 0..in.unpConst] ==
                      IF i = 0 THEN r ELSE unprotectRoundOld(in, F[i - 1])
              IN  F[in.unpConst]
    ELSE [r EXCEPT !.fv = unprotectAll(@)]

\* The walk over vars at an allocating call: it ends at the first slot
\* with a positive protect count; until then a slot that is not passed to
\* the call gets a conditional message.
reportUnprotectedVarsOld(in, r) ==
    LET keys == KeysInOrder(DOMAIN r.fv.vars, r.addr)
        passed == passedVars(in)
        F[i \in 0..Len(keys)] ==
            IF i = 0 THEN [r |-> r, ret |-> FALSE]
            ELSE LET q == F[i - 1]
                     var == keys[i]
                 IN  IF q.ret THEN q
                     ELSE IF q.r.fv.vars[var] > 0 THEN Return(q.r)
                     ELSE IF var \in passed THEN q
                     ELSE LET m == LineInfo("unprotected variable", var,
                                            in.line)
                          IN  Continue([q.r EXCEPT !.fv.condMsgs =
                                  IF CondHas(@, var) THEN CondAdd(@, var, m)
                                  ELSE CondInsert(@, var, m)])
    IN  F[Len(keys)].r

REPORT_FRESH_ARGUMENTS == TRUE

handleCallOld(in, r) ==
    IF in.op # "call" \/ in.callee = "" THEN r
    ELSE IF in.callee = "R_PreserveObject" THEN handlePreserve(in, r)
    ELSE IF in.callee \in {"Rf_protect", "R_ProtectWithIndex"}
    THEN handleProtectOld(in, r)
    ELSE IF in.callee = "Rf_unprotect" THEN handleUnprotectOld(in, r)
    ELSE IF ~in.allocating THEN r
    ELSE
    LET bad == {i \in 1..Len(in.args) : in.args[i].allocator}
        r1 == IF REPORT_FRESH_ARGUMENTS /\ ~in.protectsArguments
              THEN [r EXCEPT
                      !.msgs = IF bad = {} THEN @
                               ELSE @ \cup {LineInfo("calling allocating function with argument allocated",
                                                     NoVar, in.line)},
                      !.refinableInfos = @ + Cardinality(bad)]
              ELSE r
        r2 == pruneFreshVarsOld(in, r1)
    IN  IF DOMAIN r2.fv.vars # {} THEN reportUnprotectedVarsOld(in, r2)
        ELSE r2

handleLoadOld(in, r0) ==
    IF in.op # "load" THEN r0
    ELSE IF in.var = NoVar THEN r0
    ELSE
    LET var == in.var
        r == IF CondHas(r0.fv.condMsgs, var)
             THEN [r0 EXCEPT !.msgs = Flush(@, r0.fv.condMsgs, var),
                             !.refinableInfos = @ + 1,
                             !.fv.condMsgs = CondErase(@, var)]
             ELSE r0
    IN  IF ~InVars(r.fv.vars, var) THEN r
        ELSE
        LET nProtects == r.fv.vars[var]
            \* the walk over the users: a setter ends it and changes
            \* nothing; a store to something that is no local slot makes
            \* the slot not fresh, if the walk gets to it
            F[i \in 0..Len(in.users)] ==
                IF i = 0 THEN "walk"
                ELSE IF F[i - 1] # "walk" THEN F[i - 1]
                ELSE LET u == in.users[i]
                     IN  IF /\ u.kind = "call" /\ u.called
                            /\ u.nargs > 1 /\ u.setter
                            /\ u.firstArg # NoVar
                            /\ ~InVars(r.fv.vars, u.firstArg) THEN "break"
                         ELSE IF /\ u.kind = "store"
                                 /\ u.storeValueIsUser
                                 /\ ~u.ptrIsSlot THEN "erase"
                         ELSE "walk"
            r1 == IF F[Len(in.users)] = "erase"
                  THEN [r EXCEPT !.fv.vars = VarsErase(@, var)] ELSE r
        IN  IF ~REPORT_FRESH_ARGUMENTS THEN r1
            ELSE IF Len(in.users) # 1 THEN r1
            ELSE IF \/ ~in.consResolved
                    \/ ~in.consAllocating
                    \/ in.consProtectsArguments THEN r1
            ELSE IF nProtects > 0 THEN r1
            ELSE [r1 EXCEPT
                    !.msgs = @ \cup {LineInfo("calling allocating function with a fresh pointer",
                                              var, in.line)},
                    !.refinableInfos = @ + 1]

handleStoreOld(in, r0) ==
    IF in.op # "store" THEN r0
    ELSE IF in.ptr # "slot" THEN r0
    ELSE
    LET var == in.var
        r == [r0 EXCEPT !.fv.condMsgs = CondErase(@, var)]
        protectedToo ==
            \E i \in 1..Len(in.valUsers) :
                /\ in.valUsers[i].kind = "call" /\ in.valUsers[i].called
                /\ in.valUsers[i].name \in {"Rf_protect",
                                            "Rf_protectWithIndex",
                                            "R_Reprotect"}
    IN  IF in.valCallee \in {"Rf_protect", "Rf_protectWithIndex"} THEN r
        ELSE IF in.valCallee # "" /\ in.valAllocator
        THEN IF protectedToo THEN r
             ELSE [r EXCEPT !.fv.vars = VarsPut(@, var, 0)]
        ELSE [r EXCEPT !.fv.vars = VarsErase(@, var)]

handleFreshVarsForNonTerminatorOld(in, r) ==
    handleStoreOld(in, handleLoadOld(in, handleCallOld(in, r)))

\* ------------------------------------------------- the analysed function

\* A function under check: its basic blocks (block 1 is the entry), each
\* with its instructions, its terminator and its CFG successors; the blocks
\* the error-path finder marks; whether the function is on the lists of
\* functions to check without integer / SEXP guards; and the slots the
\* recognisers accept as protection counter, as saved stack top, as integer
\* guard and as SEXP guard.
\*
\* A terminator is a return, or a branch; a conditional branch may test a
\* slot against zero (cmp = "zero") or against R_NilValue (cmp = "nil"):
\* succ[1] is then taken when the slot is zero / nil.
Ret == [kind |-> "ret", succ |-> <<>>, cmp |-> "none", cmpVar |-> NoVar]

Br(succ) == [kind |-> "br", succ |-> succ, cmp |-> "none", cmpVar |-> NoVar]

CondBr(cmp, var, succ) ==
    [kind |-> "br", succ |-> succ, cmp |-> cmp, cmpVar |-> var]

Block(instrs, term) == [instrs |-> instrs, term |-> term]

\* ------------------------------------------------ balance (from the spec)

\* The transfer of the balance domain for one instruction.  X holds the
\* state under construction (X.s), the messenger's buffer and the tally.
Finding(X, kind, line) ==
    [X EXCEPT !.msgs = @ \cup {LineInfo(kind, NoVar, line)},
              !.refinableInfos = @ + 1]

handleBalanceForNonTerminator(in, X, f) ==
    LET b == X.s.balance
    IN  IF b.confused THEN X
        ELSE IF in.op = "call" /\ in.callee \in {"Rf_protect", "R_ProtectWithIndex"}
        THEN [X EXCEPT !.s.balance.depth = @ + 1]
        ELSE IF in.op = "call" /\ in.callee = "Rf_unprotect"
        THEN IF in.unpKind = "const"
             THEN LET X1 == [X EXCEPT !.s.balance.depth = @ - in.unpConst]
                  IN  IF b.countState # "DIFF" /\ b.depth - in.unpConst < 0
                      THEN Finding(X1, "has negative depth", in.line)
                      ELSE X1
             ELSE IF /\ in.unpKind = "load" /\ in.unpVar # NoVar
                     /\ b.counterVar = in.unpVar /\ b.countState = "EXACT"
             THEN [X EXCEPT !.s.balance.depth = @ - b.count,
                            !.s.balance.countState = "DIFF"]
             ELSE X
        ELSE IF in.op = "store" /\ in.ptr = "slot" /\ in.var \in f.counterVars
        THEN IF in.valKind = "const"
             THEN [X EXCEPT !.s.balance.count = in.valConst,
                            !.s.balance.countState = "EXACT",
                            !.s.balance.counterVar = in.var]
             ELSE IF /\ in.valKind = "add" /\ in.valVar = in.var
                     /\ b.counterVar = in.var /\ b.countState = "EXACT"
             THEN [X EXCEPT !.s.balance.count = @ + in.valConst]
             ELSE [X EXCEPT !.s.balance.countState = "NONE",
                            !.s.balance.counterVar = NoVar,
                            !.s.balance.count = 0]
        ELSE IF /\ in.op = "store" /\ in.ptr = "slot" /\ in.var \in f.saveVars
                /\ in.valKind = "stackTop"
        THEN [X EXCEPT !.s.balance.savedDepth = b.depth,
                       !.s.balance.topSaveVar = in.var]
        ELSE IF in.op = "store" /\ in.ptr = "ppStackTop"
        THEN IF /\ in.valKind = "load" /\ in.valVar # NoVar
                /\ b.topSaveVar = in.valVar /\ b.savedDepth >= 0
             THEN LET X1 == [X EXCEPT !.s.balance.depth = b.savedDepth]
                  IN  IF b.savedDepth > b.depth
                      THEN Finding(X1, "restores the stack above its depth",
                                   in.line)
                      ELSE X1
             ELSE [Finding(X, "manipulates PPStackTop directly", in.line)
                     EXCEPT !.s.balance.confused = TRUE]
        ELSE X

\* At a return the depth must be back to zero.  The handler reports
\* whether it has taken care of the successors itself.
handleBalanceForTerminator(t, X) ==
    IF t.kind = "ret" /\ ~X.s.balance.confused
       /\ X.s.balance.countState # "DIFF" /\ X.s.balance.depth # 0
    THEN [X |-> Finding(X, "has possible protection stack imbalance", 0),
          consumed |-> TRUE, succs |-> <<>>]
    ELSE [X |-> X, consumed |-> FALSE, succs |-> <<>>]

\* ----------------------------------------- integer guards (from the spec)

GuardState(guards, var) ==
    IF var \in DOMAIN guards THEN guards[var] ELSE "UNKNOWN"

GuardPut(guards, var, st) ==
    [w \in DOMAIN guards \cup {var} |-> IF w = var THEN st ELSE guards[w]]

handleIntGuardsForNonTerminator(in, X, f) ==
    IF in.op = "store" /\ in.ptr = "slot" /\ in.var \in f.intGuardVars
    THEN IF in.valKind = "const"
         THEN [X EXCEPT !.s.intGuards =
                 GuardPut(@, in.var, IF in.valConst = 0 THEN "ZERO"
                                     ELSE "NONZERO")]
         ELSE IF in.valKind = "load" /\ in.valVar \in f.intGuardVars
         THEN [X EXCEPT !.s.intGuards =
                 GuardPut(@, in.var, GuardState(@, in.valVar))]
         ELSE [X EXCEPT !.s.intGuards = GuardPut(@, in.var, "UNKNOWN")]
    ELSE X

\* A branch on a comparison of a guard with zero: each successor gets the
\* guard's value on that side, a side the known value rules out is pruned.
handleIntGuardsForTerminator(t, X, f) ==
    IF t.cmp = "zero" /\ t.cmpVar \in f.intGuardVars /\ Len(t.succ) = 2
    THEN LET g == GuardState(X.s.intGuards, t.cmpVar)
             side(i, st) ==
                 IF g = "UNKNOWN" \/ g = st
                 THEN <<[X.s EXCEPT !.bb = t.succ[i],
                                    !.intGuards = GuardPut(@, t.cmpVar, st)]>>
                 ELSE <<>>
         IN  [X |-> X, consumed |-> TRUE,
              succs |-> side(1, "ZERO") \o side(2, "NONZERO")]
    ELSE [X |-> X, consumed |-> FALSE, succs |-> <<>>]

\* -------------------------------------------- SEXP guards (from the spec)

SEXPGuard(state, symbolName) == [state |-> state, symbolName |-> symbolName]

SEXPGuardState(guards, var) ==
    IF var \in DOMAIN guards THEN guards[var].state ELSE "UNKNOWN"

USE_ALLOCATOR_DETECTION == TRUE

handleSEXPGuardsForNonTerminator(in, X, f) ==
    IF in.op = "store" /\ in.ptr = "slot" /\ in.var \in f.sexpGuardVars
    THEN LET g == IF in.valKind = "nil" THEN SEXPGuard("NIL", "")
                  ELSE IF in.valKind = "symbol"
                  THEN SEXPGuard("SYMBOL", "sym")
                  ELSE IF /\ USE_ALLOCATOR_DETECTION
                          /\ in.valCallee # "" /\ in.valAllocator
                  THEN SEXPGuard("NONNIL", "")
                  ELSE IF in.valKind = "load" /\ in.valVar \in f.sexpGuardVars
                          /\ in.valVar \in DOMAIN X.s.sexpGuards
                  THEN X.s.sexpGuards[in.valVar]
                  ELSE SEXPGuard("UNKNOWN", "")
         IN  [X EXCEPT !.s.sexpGuards = GuardPut(@, in.var, g)]
    ELSE X

handleSEXPGuardsForTerminator(t, X, f) ==
    IF t.cmp = "nil" /\ t.cmpVar \in f.sexpGuardVars /\ Len(t.succ) = 2
    THEN LET g == SEXPGuardState(X.s.sexpGuards, t.cmpVar)
             isNil == <<[X.s EXCEPT !.bb = t.succ[1],
                           !.sexpGuards = GuardPut(@, t.cmpVar,
                                                   SEXPGuard("NIL", ""))]>>
             notNil == <<[X.s EXCEPT !.bb = t.succ[2],
                           !.sexpGuards =
                              IF g = "SYMBOL" THEN @
                              ELSE GuardPut(@, t.cmpVar,
                                            SEXPGuard("NONNIL", ""))]>>
         IN  [X |-> X, consumed |-> TRUE,
              succs |-> (IF g \in {"UNKNOWN", "NIL"} THEN isNil ELSE <<>>)
                        \o (IF g # "NIL" THEN notNil ELSE <<>>)]
    ELSE [X |-> X, consumed |-> FALSE, succs |-> <<>>]

\* ------------------------------------------------------ the checker state

VARIABLES
    fun,                \* the function under check
    intGuardsEnabled,   \* checkFunction's locals: the guard domains in use
    sexpGuardsEnabled,
    refinableInfos,     \* the tally of refinable findings of the current run
    doneSet,            \* the states seen (an unordered set)
    workList,           \* the states to process (a stack, its top last)
    s,                  \* the state being processed
    ip,                 \* the index of the next instruction of s.bb
    pc,                 \* where the checker is
    msg,                \* the line messenger's buffer for this function
    checkedVarsCache,   \* the function checker's cache of checked slots
    runs,               \* a log: one record per finished run
    impl,               \* which fresh-vars implementation a sequence runs
    fresh,              \* the state a free instruction sequence has reached
    mirror,             \* the same sequence, the slots in reverse address order
    bal,                \* the balance state the sequence has reached
    steps,              \* the length of the sequence so far
    last,               \* the sequence's last instruction: its callee or opcode
    undo,               \* a log: what a protect of a slot found, kept while
                        \* the next instruction is unprotect(1)
    callInfos,          \* maacheck: the calls met so far, the last one current
    scanned,            \* the number of calls the scanner is done with
    u,                  \* the index of the next operand of the current call
    nFreshObjects,      \* the tallies of the current call
    nAllocatingArgs,
    out,                \* the warnings printed: the calls they are about
    kinds               \* a log: the kind given to each operand of the call

engineVars ==
    <<fun, intGuardsEnabled, sexpGuardsEnabled, refinableInfos, doneSet,
      workList, s, ip, pc, msg, checkedVarsCache, runs>>

sequenceVars == <<impl, fresh, mirror, bal, steps, last, undo>>

scannerVars ==
    <<callInfos, scanned, u, nFreshObjects, nAllocatingArgs, out, kinds>>

vars == <<engineVars, sequenceVars, scannerVars>>

\* ------------------------------------------------ bcheck: states, the sets

FULL_COMPARISON == TRUE

\* BcheckStateTy(bb, ...): the hashcode of a new state is 0 until add().
BcheckStateTy(bb, balance, intGuards, sexpGuards, freshVars) ==
    [bb |-> bb, balance |-> balance, intGuards |-> intGuards,
     sexpGuards |-> sexpGuards, freshVars |-> freshVars, hashcode |-> <<>>]

InitState == BcheckStateTy(1, InitBalance, <<>>, <<>>, EmptyFreshVars)

clone(st, newBB) ==
    BcheckStateTy(newBB, st.balance, st.intGuards, st.sexpGuards,
                  st.freshVars)

\* BcheckStateTy::hash.  The hashcode is kept as the sequence of the values
\* hash_combine is given, in the order it is given them: two states get the
\* same hashcode when that sequence is the same.  The ordered maps are
\* walked in address order; condMsgs is walked in the container's order,
\* and its keys are not hashed.
hash(st) ==
    LET gk == KeysInOrder(DOMAIN st.intGuards, AddrOrder)
        sk == KeysInOrder(DOMAIN st.sexpGuards, AddrOrder)
        vk == KeysInOrder(DOMAIN st.freshVars.vars, AddrOrder)
        cm == st.freshVars.condMsgs
    IN  [st EXCEPT !.hashcode =
          <<st.bb, st.balance.depth, st.balance.count, st.balance.savedDepth,
            st.balance.countState,
            Len(gk), [i \in 1..Len(gk) |-> <<gk[i], st.intGuards[gk[i]]>>],
            Len(sk), [i \in 1..Len(sk) |->
                        <<sk[i], st.sexpGuards[sk[i]].state,
                          IF st.sexpGuards[sk[i]].state = "SYMBOL"
                          THEN st.sexpGuards[sk[i]].symbolName ELSE "">>],
            Len(vk), [i \in 1..Len(vk) |->
                        <<vk[i], st.freshVars.vars[vk[i]]>>],
            Len(cm), [i \in 1..Len(cm) |->
                        <<Cardinality(cm[i].msgs), cm[i].msgs>>],
            Len(st.freshVars.pstack), st.freshVars.pstack>>]

BcheckStateTy_equal(lhs, rhs) ==
    IF ~FULL_COMPARISON THEN lhs.hashcode = rhs.hashcode
    ELSE /\ lhs.bb = rhs.bb
         /\ lhs.balance.depth = rhs.balance.depth
         /\ lhs.balance.savedDepth = rhs.balance.savedDepth
         /\ lhs.balance.count = rhs.balance.count
         /\ lhs.balance.countState = rhs.balance.countState
         /\ lhs.balance.counterVar = rhs.balance.counterVar
         /\ lhs.balance.confused = rhs.balance.confused
         /\ lhs.balance.topSaveVar = rhs.balance.topSaveVar
         /\ lhs.intGuards = rhs.intGuards
         /\ lhs.sexpGuards = rhs.sexpGuards
         /\ lhs.freshVars.vars = rhs.freshVars.vars
         /\ CondEqual(lhs.freshVars.condMsgs, rhs.freshVars.condMsgs)
         /\ lhs.freshVars.pstack = rhs.freshVars.pstack
         /\ lhs.freshVars.confused = rhs.freshVars.confused

\* unordered_set::insert: the set keeps each element's hashcode and takes
\* an element for present when one with the same hashcode compares equal.
Present(st, done) ==
    \E e \in done : e.hashcode = st.hashcode /\ BcheckStateTy_equal(e, st)

\* A faulty variant of add, which looks for the state on the work list and
\* not in the done set: RunTerminates rests on the done set.
addUnlessPending(st, done, work) ==
    IF \E i \in 1..Len(work) : work[i] = hash(st)
    THEN [doneSet |-> done \cup {hash(st)}, workList |-> work,
          added |-> FALSE]
    ELSE [doneSet |-> done \cup {hash(st)},
          workList |-> Append(work, hash(st)), added |-> TRUE]

\* BcheckStateTy::add: the state is hashed; a state that is not in the
\* done set yet is put there and pushed on the work list.
add(st, done, work) ==
    LET h == hash(st)
    IN  IF Present(h, done)
        THEN [doneSet |-> done, workList |-> work, added |-> FALSE]
        ELSE [doneSet |-> done \cup {h}, workList |-> Append(work, h),
              added |-> TRUE]

\* add() for each of the states, in their order.
addAll(sts, done, work) ==
    LET F[i \in 0..Len(sts)] ==
            IF i = 0 THEN [doneSet |-> done, workList |-> work, added |-> FALSE]
            ELSE add(sts[i], F[i - 1].doneSet, F[i - 1].workList)
    IN  F[Len(sts)]

\* A faulty variant of handleUnprotectWithIntGuard, which takes the
\* constant of the true side whatever the guard is known to be.
unprotectTrueSideWithIntGuard(in, X, f) ==
    IF in.op # "call" THEN X
    ELSE IF in.callee # "Rf_unprotect" THEN X
    ELSE IF in.unpKind # "select" THEN X
    ELSE IF in.selGuard = NoVar \/ in.selGuard \notin f.intGuardVars THEN X
    ELSE IF GuardState(X.s.intGuards, in.selGuard) = "UNKNOWN" THEN X
    ELSE LET X1 == [X EXCEPT !.s.balance.depth = @ - in.selTrue]
         IN  IF /\ X1.s.balance.countState # "DIFF"
                /\ X1.s.balance.depth < 0
             THEN Finding(X1, "has negative depth", in.line)
             ELSE X1

\* handleUnprotectWithIntGuard: UNPROTECT(guard == 0 ? A : B) with a guard
\* whose value is known.
handleUnprotectWithIntGuard(in, X, f) ==
    IF in.op # "call" THEN X
    ELSE IF in.callee # "Rf_unprotect" THEN X
    ELSE IF in.unpKind # "select" THEN X
    ELSE IF in.selGuard = NoVar \/ in.selGuard \notin f.intGuardVars THEN X
    ELSE LET gs == GuardState(X.s.intGuards, in.selGuard)
         IN  IF gs = "UNKNOWN" THEN X
             ELSE LET arg == IF \/ (gs = "ZERO" /\ in.selTrueWhenEqual)
                                \/ (gs = "NONZERO" /\ ~in.selTrueWhenEqual)
                             THEN in.selTrue ELSE in.selFalse
                      X1 == [X EXCEPT !.s.balance.depth = @ - arg]
                  IN  IF /\ X1.s.balance.countState # "DIFF"
                         /\ X1.s.balance.depth < 0
                      THEN Finding(X1, "has negative depth", in.line)
                      ELSE X1

\* ------------------------------------------ bcheck: one function, one run

\* A faulty variant of avoidIntGuardsFor, which finds no function on the
\* list: AvoidListsRespected rests on the lookup.
neverAvoided(f) == FALSE

avoidIntGuardsFor(f) == f.avoidInt

avoidSEXPGuardsFor(f) == f.avoidSexp

\* A faulty variant of restartable, true of every run: AtMostThreeRuns
\* rests on the guard domains running out.
alwaysRestartable == TRUE

restartable ==
    \/ (~intGuardsEnabled /\ ~avoidIntGuardsFor(fun))
    \/ (~sexpGuardsEnabled /\ ~avoidSEXPGuardsFor(fun))

\* clearStates: the done set and the work list, emptied.
clearStates == [doneSet |-> {}, workList |-> <<>>]

\* The fresh-vars transfer on the state under construction.
withFreshVars(X, r) ==
    [X EXCEPT !.s.freshVars = r.fv, !.msgs = r.msgs,
              !.refinableInfos = r.refinableInfos, !.cache = r.cache,
              !.aborted = r.aborted]

freshVarsStep(in, X) ==
    withFreshVars(X,
        handleFreshVarsForNonTerminator(in,
            [fv |-> X.s.freshVars, msgs |-> X.msgs,
             refinableInfos |-> X.refinableInfos, cache |-> X.cache,
             aborted |-> X.aborted, addr |-> X.addr],
            X.s.balance))

\* The body of the loop over the instructions of a block: fresh vars, then
\* balance, then the integer guards and the conditional unprotect, then the
\* SEXP guards; a restartable run is given up as soon as the tally is not
\* zero.
\* A faulty variant of GiveUp, which lets the run go on.
goOnRegardless(X) == [X |-> X, stop |-> FALSE]

GiveUp(X) == [X |-> X, stop |-> TRUE]

GoOn(X) == [X |-> X, stop |-> FALSE]

afterSEXPGuards(X, rst) ==
    IF rst /\ X.refinableInfos > 0 THEN GiveUp(X) ELSE GoOn(X)

afterUnprotectWithIntGuard(in, X, f, sge, rst) ==
    IF rst /\ X.refinableInfos > 0 THEN GiveUp(X)
    ELSE IF sge
    THEN Then(handleSEXPGuardsForNonTerminator(in, X, f),
              LAMBDA Y : afterSEXPGuards(Y, rst))
    ELSE GoOn(X)

afterIntGuards(in, X, f, sge, rst) ==
    IF rst /\ X.refinableInfos > 0 THEN GiveUp(X)
    ELSE Then(handleUnprotectWithIntGuard(in, X, f),
              LAMBDA Y : afterUnprotectWithIntGuard(in, Y, f, sge, rst))

afterBalance(in, X, f, ige, sge, rst) ==
    IF rst /\ X.refinableInfos > 0 THEN GiveUp(X)
    ELSE IF ige
    THEN Then(handleIntGuardsForNonTerminator(in, X, f),
              LAMBDA Y : afterIntGuards(in, Y, f, sge, rst))
    ELSE IF sge
    THEN Then(handleSEXPGuardsForNonTerminator(in, X, f),
              LAMBDA Y : afterSEXPGuards(Y, rst))
    ELSE GoOn(X)

afterFreshVars(in, X, f, ige, sge, rst) ==
    IF X.aborted THEN GiveUp(X)
    ELSE IF rst /\ X.refinableInfos > 0 THEN GiveUp(X)
    ELSE Then(handleBalanceForNonTerminator(in, X, f),
              LAMBDA Y : afterBalance(in, Y, f, ige, sge, rst))

\* A faulty variant of visitInstruction, which runs the balance transfer
\* before the fresh-vars transfer.
visitBalanceFirst(in, X, f, ige, sge, rst) ==
    Then(handleBalanceForNonTerminator(in, X, f),
         LAMBDA Y : Then(freshVarsStep(in, Y),
                         LAMBDA Z : IF Z.aborted THEN GiveUp(Z)
                                    ELSE afterBalance(in, Z, f, ige, sge,
                                                      rst)))

visitInstruction(in, X, f, ige, sge, rst) ==
    Then(freshVarsStep(in, X),
         LAMBDA Y : afterFreshVars(in, Y, f, ige, sge, rst))

\* The terminator: balance, then the SEXP guards, then the integer guards
\* may take care of the successors; else every CFG successor gets a clone
\* of the state.
conservatively(t, X) ==
    [X |-> X, consumed |-> FALSE,
     succs |-> [i \in 1..Len(t.succ) |-> clone(X.s, t.succ[i])]]

afterSEXPGuardsForTerminator(t, X, f, ige, sg) ==
    IF sg.consumed THEN sg
    ELSE IF ige /\ handleIntGuardsForTerminator(t, X, f).consumed
    THEN handleIntGuardsForTerminator(t, X, f)
    ELSE conservatively(t, X)

\* A faulty variant of afterBalanceForTerminator, which gives every CFG
\* successor a clone of the state whatever the handlers say.
alwaysConservatively(t, b, f, ige, sge) == conservatively(t, b.X)

afterBalanceForTerminator(t, b, f, ige, sge) ==
    IF b.consumed THEN b
    ELSE IF sge
    THEN afterSEXPGuardsForTerminator(t, b.X, f, ige,
             handleSEXPGuardsForTerminator(t, b.X, f))
    ELSE IF ige /\ handleIntGuardsForTerminator(t, b.X, f).consumed
    THEN handleIntGuardsForTerminator(t, b.X, f)
    ELSE conservatively(t, b.X)

visitTerminator(t, X, f, ige, sge) ==
    afterBalanceForTerminator(t, handleBalanceForTerminator(t, X), f, ige,
                              sge)

\* The log's record of a run that returns.
RunRecord(exit, tally, msgs) ==
    [intGuards |-> intGuardsEnabled, sexpGuards |-> sexpGuardsEnabled,
     restartable |-> restartable, tally |-> tally, msgs |-> msgs,
     exit |-> exit]

\* checkFunction(balance, freshVars, name), up to its loop: the messenger
\* starts the function, both guard domains are off.
BeginCheck ==
    /\ pc = "idle"
    /\ pc' = "call"
    /\ intGuardsEnabled' = FALSE
    /\ sexpGuardsEnabled' = FALSE
    /\ msg' = {}
    /\ UNCHANGED <<fun, refinableInfos, doneSet, workList, s, ip,
                   checkedVarsCache, runs, sequenceVars, scannerVars>>

\* checkFunction(intGuardsEnabled, ...), up to its loop.
EnterRun ==
    /\ pc = "call"
    /\ refinableInfos' = 0
    /\ \E a \in {add(InitState, clearStates.doneSet, clearStates.workList)} :
          doneSet' = a.doneSet /\ workList' = a.workList
    /\ pc' = "loop"
    /\ UNCHANGED <<fun, intGuardsEnabled, sexpGuardsEnabled, s, ip, msg,
                   checkedVarsCache, runs, sequenceVars, scannerVars>>

\* The loop's condition fails: the run returns, the done set stays.
LeaveEmpty ==
    /\ pc = "loop"
    /\ workList = <<>>
    /\ pc' = "returned"
    /\ runs' = Append(runs, RunRecord("empty", refinableInfos, msg))
    /\ UNCHANGED <<fun, intGuardsEnabled, sexpGuardsEnabled, refinableInfos,
                   doneSet, workList, s, ip, msg, checkedVarsCache,
                   sequenceVars, scannerVars>>

\* At the head of the loop, a restartable run with a finding is given up.
AbandonRefinable ==
    /\ pc = "loop"
    /\ workList # <<>>
    /\ restartable /\ refinableInfos > 0
    /\ doneSet' = clearStates.doneSet
    /\ workList' = clearStates.workList
    /\ pc' = "returned"
    /\ runs' = Append(runs, RunRecord("refinable", refinableInfos, msg))
    /\ UNCHANGED <<fun, intGuardsEnabled, sexpGuardsEnabled, refinableInfos,
                   s, ip, msg, checkedVarsCache, sequenceVars, scannerVars>>

Top == workList[Len(workList)]

Pop == SubSeq(workList, 1, Len(workList) - 1)

\* A faulty variant of tooManyStates, two states late:
\* DoneSetOvershootBounded rests on the test.
tooManyStatesLate(done) == Cardinality(done) > MAX_STATES + 2

tooManyStates(done) == Cardinality(done) > MAX_STATES

CanTake ==
    /\ pc = "loop"
    /\ workList # <<>>
    /\ ~(restartable /\ refinableInfos > 0)

\* The state taken off the work list is on an error path: it is dropped.
SkipErrorBlock ==
    /\ CanTake
    /\ Top.bb \in fun.errorBasicBlocks
    /\ workList' = Pop
    /\ s' = Top
    /\ UNCHANGED <<fun, intGuardsEnabled, sexpGuardsEnabled, refinableInfos,
                   doneSet, ip, pc, msg, checkedVarsCache, runs,
                   sequenceVars, scannerVars>>

\* The done set has more than MAX_STATES states: the function is given up.
TooManyStates ==
    /\ CanTake
    /\ Top.bb \notin fun.errorBasicBlocks
    /\ tooManyStates(doneSet)
    /\ s' = Top
    /\ doneSet' = clearStates.doneSet
    /\ workList' = clearStates.workList
    /\ pc' = "returned"
    /\ runs' = Append(runs, RunRecord("states", refinableInfos, msg))
    /\ UNCHANGED <<fun, intGuardsEnabled, sexpGuardsEnabled, refinableInfos,
                   ip, msg, checkedVarsCache, sequenceVars, scannerVars>>

\* A faulty variant of TakeState, which does not look at the error paths:
TakeStateOnAnyPath ==
    /\ CanTake
    /\ ~tooManyStates(doneSet)
    /\ workList' = Pop
    /\ s' = Top
    /\ ip' = 1
    /\ pc' = IF Len(fun.blocks[Top.bb].instrs) = 0 THEN "term" ELSE "block"
    /\ UNCHANGED <<fun, intGuardsEnabled, sexpGuardsEnabled, refinableInfos,
                   doneSet, msg, checkedVarsCache, runs, sequenceVars,
                   scannerVars>>

\* The state taken off the work list is going to be processed.
TakeState ==
    /\ CanTake
    /\ Top.bb \notin fun.errorBasicBlocks
    /\ ~tooManyStates(doneSet)
    /\ workList' = Pop
    /\ s' = Top
    /\ ip' = 1
    /\ pc' = IF Len(fun.blocks[Top.bb].instrs) = 0 THEN "term" ELSE "block"
    /\ UNCHANGED <<fun, intGuardsEnabled, sexpGuardsEnabled, refinableInfos,
                   doneSet, msg, checkedVarsCache, runs, sequenceVars,
                   scannerVars>>

\* What the handlers of one visit work on.
Visiting ==
    [s |-> s, msgs |-> msg, refinableInfos |-> refinableInfos,
     cache |-> checkedVarsCache, aborted |-> FALSE, addr |-> AddrOrder]

Visit ==
    visitInstruction(fun.blocks[s.bb].instrs[ip], Visiting, fun,
                     intGuardsEnabled, sexpGuardsEnabled, restartable)

\* One instruction of the block is visited, the run goes on.  (A myassert
\* that fails ends the process: no step is left to take.)
VisitInstruction ==
    /\ pc = "block"
    /\ \E v \in {Visit} :
          /\ ~v.stop
          /\ s' = v.X.s
          /\ msg' = v.X.msgs
          /\ refinableInfos' = v.X.refinableInfos
          /\ checkedVarsCache' = v.X.cache
    /\ ip' = ip + 1
    /\ pc' = IF ip = Len(fun.blocks[s.bb].instrs) THEN "term" ELSE "block"
    /\ UNCHANGED <<fun, intGuardsEnabled, sexpGuardsEnabled, doneSet,
                   workList, runs, sequenceVars, scannerVars>>

\* One instruction is visited and leaves a restartable run with a finding:
\* the run is given up in the middle of the block.
AbandonInBlock ==
    /\ pc = "block"
    /\ \E v \in {Visit} :
          /\ v.stop /\ ~v.X.aborted
          /\ s' = v.X.s
          /\ msg' = v.X.msgs
          /\ refinableInfos' = v.X.refinableInfos
          /\ checkedVarsCache' = v.X.cache
          /\ runs' = Append(runs, RunRecord("refinable", v.X.refinableInfos,
                                            v.X.msgs))
    /\ doneSet' = clearStates.doneSet
    /\ workList' = clearStates.workList
    /\ pc' = "returned"
    /\ UNCHANGED <<fun, intGuardsEnabled, sexpGuardsEnabled, ip,
                   sequenceVars, scannerVars>>

\* The terminator of the block: the successors are added.
Terminate ==
    /\ pc = "term"
    /\ \E v \in {visitTerminator(fun.blocks[s.bb].term, Visiting, fun,
                                   intGuardsEnabled, sexpGuardsEnabled)} :
          /\ msg' = v.X.msgs
          /\ refinableInfos' = v.X.refinableInfos
          /\ \E a \in {addAll(v.succs, doneSet, workList)} :
                /\ doneSet' = a.doneSet
                /\ workList' = a.workList
    /\ pc' = "loop"
    /\ UNCHANGED <<fun, intGuardsEnabled, sexpGuardsEnabled, s, ip,
                   checkedVarsCache, runs, sequenceVars, scannerVars>>

\* ------------------------------------------- bcheck: the refinement loop

\* LineMessenger::clear (from the spec): the buffered lines are dropped.
clear(buffer) == {}

\* Faulty variants of Restart: one tries the SEXP guards first
\* (GuardsEscalateInOrder rests on the order of the two tests), one keeps
\* the messages (RerunDiscardsDiagnostics rests on the call of clear), one
\* does not ask for a finding (RerunFollowsFinding rests on the tally).
RestartSEXPFirst ==
    /\ pc = "returned"
    /\ restartable /\ refinableInfos > 0
    /\ msg' = clear(msg)
    /\ IF ~sexpGuardsEnabled /\ ~avoidSEXPGuardsFor(fun)
       THEN sexpGuardsEnabled' = TRUE /\ UNCHANGED intGuardsEnabled
       ELSE intGuardsEnabled' = TRUE /\ UNCHANGED sexpGuardsEnabled
    /\ pc' = "call"
    /\ UNCHANGED <<fun, refinableInfos, doneSet, workList, s, ip,
                   checkedVarsCache, runs, sequenceVars, scannerVars>>

RestartKeepingMessages ==
    /\ pc = "returned"
    /\ restartable /\ refinableInfos > 0
    /\ IF ~intGuardsEnabled /\ ~avoidIntGuardsFor(fun)
       THEN intGuardsEnabled' = TRUE /\ UNCHANGED sexpGuardsEnabled
       ELSE sexpGuardsEnabled' = TRUE /\ UNCHANGED intGuardsEnabled
    /\ pc' = "call"
    /\ UNCHANGED <<fun, refinableInfos, doneSet, workList, s, ip, msg,
                   checkedVarsCache, runs, sequenceVars, scannerVars>>

RestartWithoutFinding ==
    /\ pc = "returned"
    /\ restartable
    /\ msg' = clear(msg)
    /\ IF ~intGuardsEnabled /\ ~avoidIntGuardsFor(fun)
       THEN intGuardsEnabled' = TRUE /\ UNCHANGED sexpGuardsEnabled
       ELSE sexpGuardsEnabled' = TRUE /\ UNCHANGED intGuardsEnabled
    /\ pc' = "call"
    /\ UNCHANGED <<fun, refinableInfos, doneSet, workList, s, ip,
                   checkedVarsCache, runs, sequenceVars, scannerVars>>

\* The run had a finding and a guard domain is left to enable: the
\* messages are dropped and the function is checked again.
Restart ==
    /\ pc = "returned"
    /\ restartable /\ refinableInfos > 0
    /\ msg' = clear(msg)
    /\ IF ~intGuardsEnabled /\ ~avoidIntGuardsFor(fun)
       THEN intGuardsEnabled' = TRUE /\ UNCHANGED sexpGuardsEnabled
       ELSE IF ~sexpGuardsEnabled /\ ~avoidSEXPGuardsFor(fun)
       THEN sexpGuardsEnabled' = TRUE /\ UNCHANGED intGuardsEnabled
       ELSE UNCHANGED <<intGuardsEnabled, sexpGuardsEnabled>>
    /\ pc' = "call"
    /\ UNCHANGED <<fun, refinableInfos, doneSet, workList, s, ip,
                   checkedVarsCache, runs, sequenceVars, scannerVars>>

\* The loop breaks: the messages of the last run are the function's.
Finish ==
    /\ pc = "returned"
    /\ ~(restartable /\ refinableInfos > 0)
    /\ pc' = "done"
    /\ UNCHANGED <<fun, intGuardsEnabled, sexpGuardsEnabled, refinableInfos,
                   doneSet, workList, s, ip, msg, checkedVarsCache, runs,
                   sequenceVars, scannerVars>>

\* ------------------------------------------------- the checked functions

\* The statements the checked functions are made of, each the instructions
\* the compiler gives for it.  Slot 4 is the int the function counts its
\* protects in, 5 is an int flag, 6 holds a saved R_PPStackTop.
Live == {1, 2}

CounterVars == {4}

IntGuardVars == {5}

SaveVars == {6}

SEXPGuardVars == {1, 2}

\* h(): a call to an allocating function, the locals possibly used later.
CallAlloc(line) ==
    [Instr EXCEPT !.op = "call", !.line = line, !.callee = "alloc",
                  !.allocating = TRUE, !.possiblyUsed = Live,
                  !.possiblyKilled = Live]

\* v = alloc(): the call, then the store of its result.
StoreAlloc(v, line) ==
    [Instr EXCEPT !.op = "store", !.line = line, !.ptr = "slot", !.var = v,
                  !.valKind = "call", !.valCallee = "alloc",
                  !.valAllocator = TRUE]

AssignAlloc(v, line) == <<CallAlloc(line), StoreAlloc(v, line)>>

\* A load of v that a call to a function that does not allocate consumes.
LoadVar(v, line) ==
    [Instr EXCEPT !.op = "load", !.line = line, !.var = v,
                  !.users = <<CallUser("use", 1, FALSE, v, FALSE)>>,
                  !.consResolved = TRUE, !.consParams = 1]

\* PROTECT(v): the load of v, then the call.
ProtectCall(v, line) ==
    [Instr EXCEPT !.op = "call", !.line = line, !.callee = "Rf_protect",
                  !.argLoad = v]

Protect(v, line) ==
    <<[LoadVar(v, line) EXCEPT
         !.users = <<CallUser("Rf_protect", 1, FALSE, v, FALSE)>> ],
      ProtectCall(v, line)>>

\* PROTECT(alloc()): no slot holds the value.
ProtectAnonymous(line) == <<CallAlloc(line), ProtectCall(NoVar, line)>>

\* UNPROTECT(k).
Unprotect(k, line) ==
    <<[Instr EXCEPT !.op = "call", !.line = line, !.callee = "Rf_unprotect",
                    !.unpKind = "const", !.unpConst = k]>>

\* UNPROTECT(nprotect).
UnprotectCounter(line) ==
    <<[Instr EXCEPT !.op = "load", !.line = line, !.var = NoVar],
      [Instr EXCEPT !.op = "call", !.line = line, !.callee = "Rf_unprotect",
                    !.unpKind = "load", !.unpVar = 4]>>

\* UNPROTECT(flag == 0 ? a : b).
UnprotectSelect(a, b, line) ==
    <<[Instr EXCEPT !.op = "call", !.line = line, !.callee = "Rf_unprotect",
                    !.unpKind = "select", !.selGuard = 5,
                    !.selTrueWhenEqual = TRUE, !.selTrue = a,
                    !.selFalse = b]>>

\* An int local is given a constant: nprotect = c, flag = c.
StoreConst(v, c, line) ==
    <<[Instr EXCEPT !.op = "store", !.line = line, !.ptr = "slot",
                    !.var = v, !.valKind = "const", !.valConst = c]>>

\* nprotect += c.
AddCounter(c, line) ==
    <<[Instr EXCEPT !.op = "store", !.line = line, !.ptr = "slot",
                    !.var = 4, !.valKind = "add", !.valVar = 4,
                    !.valConst = c]>>

\* v = R_NilValue.
StoreNil(v, line) ==
    <<[Instr EXCEPT !.op = "store", !.line = line, !.ptr = "slot",
                    !.var = v, !.valKind = "nil"]>>

\* use(v).
Use(v, line) == <<LoadVar(v, line)>>

\* savestack = R_PPStackTop; R_PPStackTop = savestack.
SaveTop(line) ==
    <<[Instr EXCEPT !.op = "store", !.line = line, !.ptr = "slot",
                    !.var = 6, !.valKind = "stackTop"]>>

RestoreTop(line) ==
    <<[Instr EXCEPT !.op = "store", !.line = line, !.ptr = "ppStackTop",
                    !.valKind = "load", !.valVar = 6]>>

Function(blocks, errorBasicBlocks) ==
    [blocks |-> blocks, errorBasicBlocks |-> errorBasicBlocks,
     avoidInt |-> FALSE, avoidSexp |-> FALSE,
     counterVars |-> CounterVars, saveVars |-> SaveVars,
     intGuardVars |-> IntGuardVars, sexpGuardVars |-> SEXPGuardVars]

\* x = alloc(); PROTECT(x); h(); UNPROTECT(1); return
Balanced ==
    Function(<<Block(AssignAlloc(1, 1) \o Protect(1, 2) \o <<CallAlloc(3)>>
                       \o Unprotect(1, 4), Ret)>>, {})

\* while (c) PROTECT(alloc()); return
ProtectLoop ==
    Function(<<Block(ProtectAnonymous(1), Br(<<1, 2>>)), Block(<<>>, Ret)>>,
             {})

\* PROTECT(x = alloc()); y = alloc(); UNPROTECT(1);
\* do { h(); if (c) use(x); else use(y); } while (d); return
PendingLoop ==
    Function(<<Block(<<CallAlloc(1),
                       [StoreAlloc(1, 1) EXCEPT !.valUsers =
                          <<CallUser("Rf_protect", 1, FALSE, NoVar, FALSE)>> ],
                       [ProtectCall(NoVar, 1) EXCEPT !.argStoredTo = 1]>>
                       \o AssignAlloc(2, 2) \o Unprotect(1, 2), Br(<<2>>)),
               Block(<<CallAlloc(3)>>, Br(<<4, 3>>)),
               Block(Use(1, 4), Br(<<2>>)),
               Block(Use(2, 5), Br(<<2, 5>>)),
               Block(<<>>, Ret)>>, {})

\* x = alloc(); if (flag) PROTECT(x); h(); if (flag) UNPROTECT(1); return
IntGuarded ==
    Function(<<Block(AssignAlloc(1, 1), CondBr("zero", 5, <<3, 2>>)),
               Block(Protect(1, 2), Br(<<3>>)),
               Block(<<CallAlloc(3)>>, CondBr("zero", 5, <<5, 4>>)),
               Block(Unprotect(1, 4), Br(<<5>>)),
               Block(<<>>, Ret)>>, {})

\* if (y != R_NilValue) PROTECT(x = alloc()); h();
\* if (y != R_NilValue) UNPROTECT(1); return
SEXPGuarded ==
    Function(<<Block(<<>>, CondBr("nil", 2, <<3, 2>>)),
               Block(AssignAlloc(1, 1) \o Protect(1, 2), Br(<<3>>)),
               Block(<<CallAlloc(3)>>, CondBr("nil", 2, <<5, 4>>)),
               Block(Unprotect(1, 4), Br(<<5>>)),
               Block(<<>>, Ret)>>, {})

\* if (c) { UNPROTECT(1); error(); } return
ErrorPath ==
    Function(<<Block(<<>>, Br(<<2, 3>>)),
               Block(Unprotect(1, 1), Br(<<3>>)),
               Block(<<>>, Ret)>>, {2})

\* if (c) UNPROTECT(1); else UNPROTECT(2); return
TwoFindings ==
    Function(<<Block(<<>>, Br(<<2, 3>>)),
               Block(Unprotect(1, 1), Ret),
               Block(Unprotect(2, 2), Ret)>>, {})

\* nprotect = 0; PROTECT(x = alloc()); nprotect += 1; UNPROTECT(nprotect)
Counted ==
    Function(<<Block(StoreConst(4, 0, 1) \o AssignAlloc(1, 2)
                       \o Protect(1, 2) \o AddCounter(1, 3)
                       \o UnprotectCounter(4), Ret)>>, {})

\* save = R_PPStackTop; PROTECT(alloc()); R_PPStackTop = save; return
Saved ==
    Function(<<Block(SaveTop(1) \o ProtectAnonymous(2) \o RestoreTop(3),
                     Ret)>>, {})

\* flag = 1; PROTECT(alloc()); UNPROTECT(flag == 0 ? 0 : 1); return
Selected ==
    Function(<<Block(StoreConst(5, 1, 1) \o ProtectAnonymous(2)
                       \o UnprotectSelect(0, 1, 3), Ret)>>, {})

\* flag = c; PROTECT(alloc()); UNPROTECT(flag == 0 ? a : b); return, and
\* the same with flag != 0.
SelectedOn(c, whenEqual, a, b) ==
    Function(<<Block(StoreConst(5, c, 1) \o ProtectAnonymous(2)
                       \o <<[UnprotectSelect(a, b, 3)[1] EXCEPT
                                !.selTrueWhenEqual = whenEqual]>>, Ret)>>, {})

\* PROTECT(alloc()); UNPROTECT(flag == 0 ? 1 : 1); return, with a flag that
\* nothing is known of.
SelectedUnknown ==
    Function(<<Block(ProtectAnonymous(2) \o UnprotectSelect(1, 1, 3), Ret)>>,
             {})

\* if (c) { PROTECT(alloc()); return; }
\* flag = 1; nprotect = 0; PROTECT(alloc()); nprotect += 1;
\* UNPROTECT(nprotect); UNPROTECT(flag == 0 ? 0 : 1); return
CountedSelected ==
    Function(<<Block(<<>>, Br(<<2, 3>>)),
               Block(ProtectAnonymous(5), Ret),
               Block(StoreConst(5, 1, 1) \o StoreConst(4, 0, 1)
                       \o ProtectAnonymous(2) \o AddCounter(1, 2)
                       \o UnprotectCounter(3) \o UnprotectSelect(0, 1, 4),
                     Ret)>>, {})

\* flag = 0; if (flag != 0) UNPROTECT(1); return
IntPruned ==
    Function(<<Block(StoreConst(5, 0, 1), CondBr("zero", 5, <<2, 3>>)),
               Block(<<>>, Ret),
               Block(Unprotect(1, 2), Ret)>>, {})

\* x = R_NilValue; if (x != R_NilValue) UNPROTECT(1); return
SEXPPruned ==
    Function(<<Block(StoreNil(1, 1), CondBr("nil", 1, <<2, 3>>)),
               Block(<<>>, Ret),
               Block(Unprotect(1, 2), Ret)>>, {})

\* PROTECT(x = alloc()); y = alloc(); UNPROTECT(1);
\* h(); if (c) { use(x); h(); } return, the two calls of h on one source
\* line.
PendingTwice ==
    Function(<<Block(<<CallAlloc(1),
                       [StoreAlloc(1, 1) EXCEPT !.valUsers =
                          <<CallUser("Rf_protect", 1, FALSE, NoVar, FALSE)>> ],
                       [ProtectCall(NoVar, 1) EXCEPT !.argStoredTo = 1]>>
                       \o AssignAlloc(2, 2) \o Unprotect(1, 2)
                       \o <<CallAlloc(3)>>, Br(<<2, 3>>)),
               Block(Use(1, 4) \o <<CallAlloc(3)>>, Br(<<3>>)),
               Block(<<>>, Ret)>>, {})

SelectedFunctions ==
    {SelectedOn(c, e, k[1], k[2]) :
        c \in {0, 1}, e \in BOOLEAN, k \in {<<0, 1>>, <<1, 2>>}}
    \cup {SelectedUnknown, CountedSelected, IntPruned, SEXPPruned,
          PendingTwice}

\* The statements the generated functions draw their bodies from.
Statements ==
    {AssignAlloc(1, 1), AssignAlloc(2, 2), Protect(1, 3), ProtectAnonymous(4),
     Unprotect(1, 5), Unprotect(MaxUnprotect, 6), <<CallAlloc(7)>>, Use(1, 8),
     StoreNil(1, 9), <<>>}

\* A body of two statements, run once or in a loop.
Straight == {Function(<<Block(a \o b, Ret)>>, {}) : a, b \in Statements}

Looping ==
    {Function(<<Block(a \o b, Br(<<1, 2>>)), Block(<<>>, Ret)>>, {}) :
        a, b \in Statements}

Functions ==
    {Balanced, ProtectLoop, PendingLoop, IntGuarded, SEXPGuarded, ErrorPath,
     TwoFindings, Counted, Saved, Selected} \cup SelectedFunctions
        \cup Straight \cup Looping

\* ------------------------------------- maacheck: the scanner of calls

\* ArgExpKind.
AK_NOALLOC == 0

AK_ALLOCATING == 1

AK_FRESH == 2

\* The functions of the module: what the call-graph closure says may
\* allocate, and what findPossibleAllocators says may return a fresh object.
NoFun == ""

ModuleFunctions == {"length", "eval", "allocVector", "getAttrib0"}

AllocatingFunctions == {"eval", "allocVector"}

possibleAllocators == {"allocVector", "getAttrib0"}

\* isAllocatingFunction (allocators.h): the function may reach the collector.
isAllocatingFunction(f) == f \in AllocatingFunctions

\* The values an operand can be: something that is no call, a call (of a
\* function, or indirect: getCalledFunction gives NULL), a phi node.
Value(tag, f, incoming) == [tag |-> tag, fun |-> f, incoming |-> incoming]

OtherValue == Value("other", NoFun, <<>>)

CallValue(f) == Value("call", f, <<>>)

PhiValue(incoming) == Value("phi", NoFun, incoming)

PhiValues ==
    {PhiValue(<<>>),
     PhiValue(<<CallValue("eval")>>),
     PhiValue(<<OtherValue, CallValue("allocVector")>>),
     PhiValue(<<CallValue("allocVector"), CallValue("eval")>>),
     PhiValue(<<CallValue("getAttrib0"), CallValue("length")>>),
     PhiValue(<<PhiValue(<<CallValue("allocVector")>>)>>)}

Operands ==
    {OtherValue, CallValue(NoFun)} \cup {CallValue(f) : f \in ModuleFunctions}
        \cup PhiValues

\* A call instruction: its arguments, then the called function.
CallInsts ==
    {args \o <<OtherValue>> :
        args \in UNION {[1..n -> Operands] : n \in 0..MaxArgs}}

\* A faulty variant of classifyArgumentExpression, which takes every
\* possible allocator for an allocating function:
classifyByAllocatorOnly(arg) ==
    IF arg.tag # "call" THEN AK_NOALLOC
    ELSE IF arg.fun = NoFun THEN AK_NOALLOC
    ELSE IF arg.fun \in possibleAllocators THEN AK_FRESH
    ELSE IF isAllocatingFunction(arg.fun) THEN AK_ALLOCATING
    ELSE AK_NOALLOC

classifyArgumentExpression(arg) ==
    IF arg.tag # "call" THEN AK_NOALLOC
    ELSE IF arg.fun = NoFun THEN AK_NOALLOC
    ELSE IF ~isAllocatingFunction(arg.fun) THEN AK_NOALLOC
    ELSE IF arg.fun \in possibleAllocators THEN AK_FRESH
    ELSE AK_ALLOCATING

\* main, the kind of operand o: a phi node takes the most difficult kind
\* of its incoming values.
kindOfOperand(o) ==
    IF o.tag = "phi"
    THEN LET K[i \in 0..Len(o.incoming)] ==
                 IF i = 0 THEN AK_NOALLOC
                 ELSE LET cur == classifyArgumentExpression(o.incoming[i])
                      IN  IF cur > K[i - 1] THEN cur ELSE K[i - 1]
         IN  K[Len(o.incoming)]
    ELSE classifyArgumentExpression(o)

\* A faulty variant of the test, which does not ask for a fresh object:
suspiciousWithoutFresh(nAllocating, nFresh) == nAllocating >= 2

\* main, the test a warning is printed on.
suspicious(nAllocating, nFresh) == nAllocating >= 2 /\ nFresh >= 1

IdleScanner ==
    /\ callInfos = <<>>
    /\ scanned = 0
    /\ u = 0
    /\ nFreshObjects = 0
    /\ nAllocatingArgs = 0
    /\ out = <<>>
    /\ kinds = <<>>

\* The loop over callInfos comes to the next call: the tallies start at 0.
NextCall ==
    /\ scanned = Len(callInfos)
    /\ scanned < MaxCalls
    /\ \E inst \in CallInsts : callInfos' = Append(callInfos, inst)
    /\ u' = 0
    /\ nFreshObjects' = 0
    /\ nAllocatingArgs' = 0
    /\ kinds' = <<>>
    /\ UNCHANGED <<scanned, out, engineVars, sequenceVars>>

\* One operand of the call is classified and tallied.
ScanOperand ==
    /\ scanned < Len(callInfos)
    /\ u < Len(callInfos[scanned + 1])
    /\ \E k \in {kindOfOperand(callInfos[scanned + 1][u + 1])} :
          /\ nAllocatingArgs' =
                 IF k >= AK_ALLOCATING THEN nAllocatingArgs + 1
                 ELSE nAllocatingArgs
          /\ nFreshObjects' =
                 IF k >= AK_FRESH THEN nFreshObjects + 1 ELSE nFreshObjects
          /\ kinds' = Append(kinds, k)
    /\ u' = u + 1
    /\ UNCHANGED <<callInfos, scanned, out, engineVars, sequenceVars>>

\* The operands are through: the warning is printed or not.
EndOfCall ==
    /\ scanned < Len(callInfos)
    /\ u = Len(callInfos[scanned + 1])
    /\ out' = IF suspicious(nAllocatingArgs, nFreshObjects)
              THEN Append(out, scanned + 1) ELSE out
    /\ scanned' = scanned + 1
    /\ UNCHANGED <<callInfos, u, nFreshObjects, nAllocatingArgs, kinds,
                   engineVars, sequenceVars>>

\* ------------------------------------------------------ the specification

\* Nothing to undo: the last instruction was no protect of a slot.
NoUndo == [phase |-> "none", var |-> NoVar, count |-> 0, pstack |-> <<>>]

IdleSequence ==
    /\ impl = "none"
    /\ fresh = Ctx(EmptyFreshVars, {}, 0, {}, AddrOrder)
    /\ mirror = Ctx(EmptyFreshVars, {}, 0, {}, AddrOrderReversed)
    /\ bal = InitBalance
    /\ steps = 0
    /\ last = "none"
    /\ undo = NoUndo

\* The function checker has been made for some function, which may be on
\* the lists of functions checked without a guard domain.
Init ==
    /\ fun \in {[f EXCEPT !.avoidInt = a, !.avoidSexp = b] :
                   f \in Functions, a \in BOOLEAN, b \in BOOLEAN}
    /\ intGuardsEnabled = FALSE
    /\ sexpGuardsEnabled = FALSE
    /\ refinableInfos = 0
    /\ doneSet = {}
    /\ workList = <<>>
    /\ s = InitState
    /\ ip = 1
    /\ pc = "idle"
    /\ msg = {}
    /\ checkedVarsCache = {}
    /\ runs = <<>>
    /\ IdleSequence
    /\ IdleScanner

Next ==
    \/ BeginCheck
    \/ EnterRun
    \/ LeaveEmpty
    \/ AbandonRefinable
    \/ SkipErrorBlock
    \/ TooManyStates
    \/ TakeState
    \/ VisitInstruction
    \/ AbandonInBlock
    \/ Terminate
    \/ Restart
    \/ Finish

Spec == Init /\ [][Next]_vars

\* The checker is one sequential process: a step that can be taken is taken.
LiveSpec == Spec /\ WF_vars(Next)

\* --------------------------------------------- free instruction sequences

\* The instructions a free sequence is made of.  A protect call of any of
\* the three kinds, its argument a load of a slot, a stored call result
\* (with or without a setter around), or a call result nobody names.
ProtectInstrs ==
    {[Instr EXCEPT !.op = "call", !.callee = "Rf_protect", !.argLoad = v] :
        v \in {NoVar, 1, 2, 3}}
    \cup
    {[Instr EXCEPT !.op = "call", !.callee = "R_Reprotect", !.argLoad = v] :
        v \in {NoVar, 1, 3}}
    \cup
    {[Instr EXCEPT !.op = "call", !.callee = "Rf_protect",
                   !.argStoredTo = 1, !.setterFirstArgs = f] :
        f \in {{}, {2}}}
    \cup
    {[Instr EXCEPT !.op = "call", !.callee = "R_ProtectWithIndex",
                   !.argLoad = 1],
     [Instr EXCEPT !.op = "call", !.callee = "Rf_protect",
                   !.resStoredTo = 2]}

UnprotectInstrs ==
    {Unprotect(k, 1)[1] : k \in 0..MaxUnprotect}
    \cup {UnprotectCounter(1)[2],
          [Instr EXCEPT !.op = "call", !.callee = "Rf_unprotect"]}

\* Liveness after a call: what is possibly used, possibly killed,
\* definitely used.
Liveness ==
    {<<{1, 2}, {1, 2}, {}>>, <<{1, 2}, {2}, {1}>>, <<{1}, {}, {1}>>,
     <<{2}, {2}, {}>>, <<{}, {}, {}>>}

CallInstrs ==
    {[CallAlloc(1) EXCEPT !.possiblyUsed = l[1], !.possiblyKilled = l[2],
                          !.definitelyUsed = l[3]] : l \in Liveness}
    \cup
    {[CallAlloc(1) EXCEPT !.args = a] :
        a \in {<<LoadOperand(1)>>, <<AllocOperand(FALSE)>>,
               <<AllocOperand(TRUE), LoadOperand(2)>>}}
    \cup
    {[Instr EXCEPT !.op = "call", !.callee = "use"],
     [Instr EXCEPT !.op = "call", !.callee = "R_PreserveObject",
                   !.argLoad = 1]}

\* A load of a SEXP local; the loaded value goes nowhere, to a call of an
\* allocating function (as a parameter the callee protects, is safe for,
\* or neither; or in the varargs), to a setter, or to a store into memory.
LoadInstrs ==
    {[LoadVar(v, 1) EXCEPT !.users = <<>>] : v \in {1, 2, 3}}
    \cup
    {[LoadVar(v, 1) EXCEPT
         !.users = <<CallUser("alloc", 1, FALSE, v, FALSE)>>,
         !.consAllocating = TRUE, !.consParams = c[1],
         !.consCalleeProtectArg = c[2], !.consCalleeSafeArg = c[3],
         !.definitelyUsed = c[4]] :
        v \in {1},
        c \in {<<0, FALSE, FALSE, {}>>, <<0, FALSE, FALSE, {1, 2}>>,
               <<1, TRUE, FALSE, {}>>, <<1, FALSE, TRUE, {}>>,
               <<1, FALSE, FALSE, {}>>}}
    \cup
    {[LoadVar(2, 1) EXCEPT
         !.users = <<CallUser("alloc", 1, FALSE, 2, FALSE)>>,
         !.consAllocating = TRUE, !.consParams = 1]}
    \cup
    {[LoadVar(v, 1) EXCEPT
         !.users = <<CallUser("SET_VECTOR_ELT", 3, TRUE, w, FALSE)>>] :
        v \in {1}, w \in {1, 2}}
    \cup
    {[LoadVar(1, 1) EXCEPT !.users = <<StoreUser(FALSE)>>]}

\* A store to a local: of the result of an allocator (which a protect call
\* or a setter may take as well), of a value derived from a local, of
\* something else; a store to the node stack.
StoreInstrs ==
    {[StoreAlloc(v, 1) EXCEPT !.valUsers = vu] :
        v \in {1, 2},
        vu \in {<<>>, <<CallUser("Rf_protect", 1, FALSE, NoVar, FALSE)>>,
               <<CallUser("SET_VECTOR_ELT", 3, TRUE, 2, FALSE)>>}}
    \cup
    {[StoreNil(2, 1)[1] EXCEPT !.valKind = "derived", !.valVar = w] :
        w \in {1, 3}}
    \cup {StoreNil(1, 1)[1], StoreAlloc(3, 1)}
    \cup {[Instr EXCEPT !.op = "store", !.nodeStackVar = 1,
                        !.aliased = {2}]}

\* The counter of protects and the saved stack top.
CounterInstrs ==
    {StoreConst(4, c, 1)[1] : c \in 0..MaxUnprotect}
    \cup {AddCounter(1, 1)[1],
          [StoreConst(4, 0, 1)[1] EXCEPT !.valKind = "other"]}

StackTopInstrs ==
    {SaveTop(1)[1], RestoreTop(1)[1],
     [RestoreTop(1)[1] EXCEPT !.valKind = "other", !.valVar = NoVar]}

\* The transfer of one instruction along a sequence, in the chosen
\* implementation; the messages and the tally are those of this one step.
stepFreshVars(i, in, r, balance) ==
    IF i = "freshvars"
    THEN handleFreshVarsForNonTerminator(in,
             [r EXCEPT !.msgs = {}, !.refinableInfos = 0], balance)
    ELSE handleFreshVarsForNonTerminatorOld(in,
             [r EXCEPT !.msgs = {}, !.refinableInfos = 0])

stepBalance(in, balance) ==
    handleBalanceForNonTerminator(in,
        [s |-> [balance |-> balance], msgs |-> {}, refinableInfos |-> 0],
        Balanced).s.balance

InBounds(b) ==
    /\ b.depth <= MaxDepth /\ b.depth >= 0 - MaxDepth
    /\ b.count <= MaxDepth

\* The log of a protect and of the unprotect(1) right after it: the slot,
\* its protect count before the protect (-1: not in vars) and the protect
\* stack before the protect, taken when the stack is below its bound.
protectLog(in) ==
    IF /\ in.op = "call"
       /\ in.callee \in {"Rf_protect", "R_ProtectWithIndex"}
       /\ in.argLoad # NoVar
       /\ Len(fresh.fv.pstack) < MAX_PSTACK_SIZE
    THEN [phase |-> "protect", var |-> in.argLoad,
          count |-> IF InVars(fresh.fv.vars, in.argLoad)
                    THEN fresh.fv.vars[in.argLoad] ELSE -1,
          pstack |-> fresh.fv.pstack]
    ELSE IF /\ undo.phase = "protect"
            /\ in.op = "call" /\ in.callee = "Rf_unprotect"
            /\ in.unpKind = "const" /\ in.unpConst = 1
    THEN [undo EXCEPT !.phase = "unprotect"]
    ELSE NoUndo

Step(in) ==
    /\ impl # "none"
    /\ ~fresh.aborted
    /\ steps < MaxSteps
    /\ steps' = steps + 1
    /\ \E b \in {stepBalance(in, bal)} : InBounds(b) /\ bal' = b
    /\ fresh' = stepFreshVars(impl, in, fresh, bal)
    /\ mirror' = stepFreshVars(impl, in, mirror, bal)
    /\ last' = (IF in.op = "call" THEN in.callee ELSE in.op)
    /\ undo' = protectLog(in)
    /\ UNCHANGED <<impl, engineVars, scannerVars>>

SeqProtect == \E in \in ProtectInstrs : Step(in)

SeqUnprotect == \E in \in UnprotectInstrs : Step(in)

SeqCall == \E in \in CallInstrs : Step(in)

SeqLoad == \E in \in LoadInstrs : Step(in)

SeqStore == \E in \in StoreInstrs : Step(in)

SeqCounter == \E in \in CounterInstrs : Step(in)

SeqStackTop == \E in \in StackTopInstrs : Step(in)

IdleEngine ==
    /\ fun = Balanced
    /\ intGuardsEnabled = FALSE
    /\ sexpGuardsEnabled = FALSE
    /\ refinableInfos = 0
    /\ doneSet = {}
    /\ workList = <<>>
    /\ s = InitState
    /\ ip = 1
    /\ pc = "sequence"
    /\ msg = {}
    /\ checkedVarsCache = {}
    /\ runs = <<>>

SeqInit ==
    /\ IdleEngine
    /\ impl \in {"freshvars", "earlier"}
    /\ fresh = Ctx(EmptyFreshVars, {}, 0, {}, AddrOrder)
    /\ mirror = Ctx(EmptyFreshVars, {}, 0, {}, AddrOrderReversed)
    /\ bal = InitBalance
    /\ steps = 0
    /\ last = "none"
    /\ undo = NoUndo
    /\ IdleScanner

SeqNext ==
    \/ SeqProtect
    \/ SeqUnprotect
    \/ SeqCall
    \/ SeqLoad
    \/ SeqStore
    \/ SeqCounter
    \/ SeqStackTop

SeqSpec == SeqInit /\ [][SeqNext]_vars

\* ------------------------------------------------ the scanner of calls

ScanInit ==
    /\ IdleEngine
    /\ IdleSequence
    /\ IdleScanner

ScanNext ==
    \/ NextCall
    \/ ScanOperand
    \/ EndOfCall

ScanSpec == ScanInit /\ [][ScanNext]_vars

\* ---------------------------------------------------------- properties

\* C1: after any sequence of protect, protect-with-index, re-protect,
\* unprotect, stack-top restore, load, store and call instructions the
\* protect stack holds at most MAX_PSTACK_SIZE entries, in either
\* implementation of the fresh-vars transfer.
PstackWithinCap ==
    /\ Len(fresh.fv.pstack) <= MAX_PSTACK_SIZE
    /\ Len(mirror.fv.pstack) <= MAX_PSTACK_SIZE

\* A protect call has met a full stack: the stack was emptied.
ProtectAtCap ==
    /\ last = "Rf_protect"
    /\ \E m \in fresh.msgs : m.kind = "protect stack is too deep"
    /\ fresh.fv.pstack = <<>>

\* C2, as stated: the done set never holds more than MAX_STATES states.
DoneSetWithinMaxStates == Cardinality(doneSet) <= MAX_STATES

BranchingOf(f) ==
    CHOOSE n \in 0..2 :
        /\ \A b \in 1..Len(f.blocks) : Len(f.blocks[b].term.succ) <= n
        /\ \E b \in 1..Len(f.blocks) : Len(f.blocks[b].term.succ) = n

\* C2, amended: no state is processed while the done set holds more than
\* MAX_STATES states, and the done set never holds more than MAX_STATES
\* states plus the successors of one terminator.
DoneSetOvershootBounded ==
    /\ pc \in {"block", "term"} => Cardinality(doneSet) <= MAX_STATES
    /\ Cardinality(doneSet) <= MAX_STATES + BranchingOf(fun)

\* The done set has grown past MAX_STATES and the run is still on.
DoneSetPastMaxStates ==
    /\ pc = "loop"
    /\ Cardinality(doneSet) > MAX_STATES

InRun == pc \in {"loop", "block", "term"}

\* C3: every run of the work-list loop over a function ends, whatever the
\* CFG: with the work list empty, with the function given up for its
\* number of states, or with the run given up for a refinable finding.
RunTerminates == InRun ~> (pc = "returned")

Cyclic(f) ==
    \E b \in 1..Len(f.blocks) :
        \E i \in 1..Len(f.blocks[b].term.succ) : f.blocks[b].term.succ[i] <= b

\* A run over a CFG with a cycle has ended with the work list empty.
CyclicRunEnded ==
    /\ pc = "returned"
    /\ Cyclic(fun)
    /\ runs[Len(runs)].exit = "empty"

\* C4, as stated: adding a state equal to one of the done set leaves the
\* set as it is, so no two states of the set are equal.
EqualStateNotAddedAgain ==
    \A a \in doneSet : \A b \in doneSet : BcheckStateTy_equal(a, b) => a = b

Escalates(a, b) ==
    \/ ~a.intGuards /\ b.intGuards /\ (a.sexpGuards <=> b.sexpGuards)
    \/ ~a.sexpGuards /\ b.sexpGuards /\ (a.intGuards <=> b.intGuards)

CurrentGuards ==
    [intGuards |-> intGuardsEnabled, sexpGuards |-> sexpGuardsEnabled]

\* C5: the first run of a function has both guard domains off; each rerun
\* has exactly one more domain on than the run before it; the SEXP guards
\* are on only when the integer guards are on or the function is on the
\* list of functions checked without them; no domain is turned off again.
GuardsEscalateInOrder ==
    /\ \A i \in 1..Len(runs) :
          /\ i = 1 => ~runs[i].intGuards /\ ~runs[i].sexpGuards
          /\ i > 1 => Escalates(runs[i - 1], runs[i])
          /\ runs[i].sexpGuards => runs[i].intGuards \/ fun.avoidInt
    /\ pc = "call" \/ InRun =>
          IF runs = <<>> THEN ~intGuardsEnabled /\ ~sexpGuardsEnabled
          ELSE Escalates(runs[Len(runs)], CurrentGuards)
    /\ sexpGuardsEnabled => intGuardsEnabled \/ fun.avoidInt

\* The third run of a function has ended: both domains were on.
ThirdRunEnded ==
    /\ Len(runs) = 3
    /\ runs[2].intGuards /\ ~runs[2].sexpGuards
    /\ runs[3].intGuards /\ runs[3].sexpGuards

\* C6: when a function is checked again the messages of the run before are
\* dropped, so every run starts with an empty buffer and the messages the
\* function ends with are those of its last run.
RerunDiscardsDiagnostics ==
    /\ pc = "call" => msg = {}
    /\ pc = "done" => msg = runs[Len(runs)].msgs

\* A function was checked again after a run that left a message, and ends
\* without that message.
MessagesOfFirstRunGone ==
    /\ pc = "done"
    /\ Len(runs) > 1
    /\ \E m \in runs[1].msgs : m \notin msg

\* C7: a function is run at most three times, and after the last run
\* either the tally is zero or every guard domain the function may use is
\* on.
AtMostThreeRuns ==
    /\ Len(runs) <= 3
    /\ pc = "call" \/ InRun => Len(runs) <= 2
    /\ pc = "done" =>
          \/ refinableInfos = 0
          \/ /\ intGuardsEnabled \/ fun.avoidInt
             /\ sexpGuardsEnabled \/ fun.avoidSexp

\* Three runs, and the last one still has findings.
ThreeRunsWithFindings ==
    /\ pc = "done"
    /\ Len(runs) = 3
    /\ refinableInfos > 0

\* C8: a guard domain is never on for a function on its avoid list, and a
\* function on one list still gets the other domain when a run has
\* findings.
AvoidListsRespected ==
    /\ fun.avoidInt => ~intGuardsEnabled
    /\ fun.avoidSexp => ~sexpGuardsEnabled
    /\ pc = "done" /\ refinableInfos > 0 =>
          /\ ~fun.avoidInt => intGuardsEnabled
          /\ ~fun.avoidSexp => sexpGuardsEnabled

\* A function on the integer list only has ended with the SEXP guards on.
SEXPGuardsDespiteIntList ==
    /\ pc = "done"
    /\ fun.avoidInt /\ ~fun.avoidSexp
    /\ sexpGuardsEnabled /\ ~intGuardsEnabled
    /\ Len(runs) = 2

\* C9, as stated: a run with one more guard domain never tallies more
\* refinable findings than the run before it.
TallyNeverGrows ==
    \A i \in 1..(Len(runs) - 1) : runs[i + 1].tally <= runs[i].tally

\* C9, amended: a run with one more guard domain comes only after a
\* restartable run that tallied at least one refinable finding and was
\* given up for it or ended on it; its own tally is not bound by that one.
RerunFollowsFinding ==
    \A i \in 1..(Len(runs) - 1) :
        /\ runs[i].restartable
        /\ runs[i].tally > 0
        /\ runs[i].exit \in {"refinable", "empty"}

\* A rerun has tallied more than the run before it.
TallyGrew ==
    \E i \in 1..(Len(runs) - 1) : runs[i + 1].tally > runs[i].tally

\* C10, as stated: the messages an instruction sequence gives do not
\* depend on the order the slot-keyed map is walked in.
DiagnosticsIndependentOfAddressOrder == fresh.msgs = mirror.msgs

\* The protect count of a slot, -1 for a slot that is not in vars.
CountOf(fv, v) == IF InVars(fv.vars, v) THEN fv.vars[v] ELSE -1

Occurrences(pstack, v) == Cardinality({i \in 1..Len(pstack) : pstack[i] = v})

\* C12, as stated: the protect count of a slot in vars is at most the
\* number of its occurrences on the protect stack.
CountWithinStackOccurrences ==
    \A v \in DOMAIN fresh.fv.vars :
        fresh.fv.vars[v] <= Occurrences(fresh.fv.pstack, v)

SeqInstrs ==
    ProtectInstrs \cup UnprotectInstrs \cup CallInstrs \cup LoadInstrs
        \cup StoreInstrs \cup CounterInstrs \cup StackTopInstrs

Pending(fv, v) == IF CondHas(fv.condMsgs, v) THEN CondGet(fv.condMsgs, v) ELSE {}

\* What handling instruction in does to the state the sequence is in.
After(in) == stepFreshVars(impl, in, fresh, bal)

\* An allocating call that is not passed v finds v in vars with protect
\* count 0 and possibly used later: the message is printed at once when v
\* is definitely used, and is printed or pending otherwise.
CallReports(in, v) ==
    /\ in.op = "call" /\ in.allocating
    /\ ~fresh.fv.confused
    /\ InVars(fresh.fv.vars, v) /\ fresh.fv.vars[v] = 0
    /\ v \notin passedVars(in)
    /\ v \in in.possiblyUsed
    => LET m == LineInfo("unprotected variable", v, in.line)
       IN  IF v \in in.definitelyUsed THEN m \in After(in).msgs
           ELSE m \in After(in).msgs \cup Pending(After(in).fv, v)

\* A pending message of v is still pending after an instruction, unless
\* the instruction printed it, stored to v, or was an allocating call
\* after which v is not possibly used.
PendingKept(in, v) ==
    Pending(fresh.fv, v) # {} =>
        \/ Pending(fresh.fv, v) \subseteq After(in).msgs
        \/ Pending(fresh.fv, v) \subseteq Pending(After(in).fv, v)
        \/ in.op = "store" /\ in.ptr = "slot" /\ in.var = v
        \/ in.op = "call" /\ in.allocating /\ v \notin in.possiblyUsed

\* A load of v prints the pending messages of v.
LoadPrints(in, v) ==
    in.op = "load" /\ in.var = v
        => Pending(fresh.fv, v) \subseteq After(in).msgs

Visited == fun.blocks[s.bb].instrs[ip]

\* The messages on slot v that a visit of an allocating call at this line
\* adds, printed or pending, to those there were.
NewUnprotectedMessages(v) ==
    {m \in ((msg' \ msg) \cup Pending(s'.freshVars, v))
               \ Pending(s.freshVars, v) :
        m.kind = "unprotected variable" /\ m.var = v
            /\ m.line = Visited.line}

\* C15: a slot whose protect count is above 0 when an allocating call is
\* visited gets no message, printed or pending, as an unprotected variable
\* of that call; the function that allocates, protects, calls and
\* unprotects by 1 gets no message at all.
ProtectedNotReported ==
    /\ [](fun.blocks = Balanced.blocks => msg = {})
    /\ [][pc = "block" /\ Visited.op = "call" /\ Visited.allocating
            => \A v \in {1, 2, 3} :
                  InVars(s.freshVars.vars, v) /\ s.freshVars.vars[v] > 0
                      => NewUnprotectedMessages(v) = {}]_vars

\* The allocating call of the balanced function has been visited with the
\* slot protected, and the check has ended without a message.
ProtectedAcrossCall ==
    /\ fun.blocks = Balanced.blocks
    /\ pc = "done"
    /\ msg = {}
    /\ \E i \in 1..Len(runs) : runs[i].msgs = {}

\* The pruning an allocating call starts with, on the state the sequence
\* is in.
Pruned(in) == pruneFreshVars(in, [fresh EXCEPT !.msgs = {}])

\* The messages on unprotected variables that handling in prints.
PrintedBy(in) == {m \in After(in).msgs : m.kind = "unprotected variable"}

\* The pending messages of v are printed by in only when in loads v or is
\* an allocating call after which v is possibly used and not possibly
\* killed, and a load prints no other message on an unprotected variable.
PrintedOnlyWhenUsed(in, v) ==
    /\ Pending(fresh.fv, v) \cap After(in).msgs # {} =>
           \/ in.op = "load" /\ in.var = v
           \/ /\ in.op = "call" /\ in.allocating
              /\ v \in in.possiblyUsed \ in.possiblyKilled
    /\ in.op = "load" /\ in.var = v => PrintedBy(in) \subseteq Pending(fresh.fv, v)

\* What prints the pending messages of v leaves none pending (a load may
\* leave a message of its own, on the call the loaded value goes to).
PrintedOnce(in, v) ==
    /\ in.op = "load" /\ in.var = v /\ ~fresh.fv.confused
           => \A m \in Pending(After(in).fv, v) :
                 m.kind = "may destroy its unprotected argument"
    /\ in.op = "call" /\ in.allocating /\ InVars(fresh.fv.vars, v)
           /\ v \in in.possiblyUsed \ in.possiblyKilled
           => /\ Pending(fresh.fv, v) \subseteq Pruned(in).msgs
              /\ Pending(Pruned(in).fv, v) = {}

\* A store to v, and the pruning that finds v not possibly used, print no
\* pending message of v and leave none pending.
Discarded(in, v) ==
    /\ in.op = "store" /\ in.ptr = "slot" /\ in.var = v /\ ~fresh.fv.confused
           => /\ Pending(After(in).fv, v) = {}
              /\ PrintedBy(in) = {}
    /\ in.op = "call" /\ in.allocating /\ InVars(fresh.fv.vars, v)
           /\ v \notin in.possiblyUsed
           => /\ Pruned(in).msgs = {m \in Pruned(in).msgs : m.var # v}
              /\ Pending(Pruned(in).fv, v) = {}

\* In a confused state no message on an unprotected variable is printed
\* any more, and the state stays confused.
SilentWhenConfused(in) ==
    fresh.fv.confused => PrintedBy(in) = {} /\ After(in).fv.confused

\* Any store to v leaves no message pending on v.
DiscardedByAnyStore(in, v) ==
    in.op = "store" /\ in.ptr = "slot" /\ in.var = v
        => Pending(After(in).fv, v) = {}

\* C16, as stated: the pending messages of a slot are printed at most
\* once, and only by the next load of the slot or by the pruning at an
\* allocating call after which the slot is possibly used and not possibly
\* killed; a store to the slot, or the pruning that finds it not possibly
\* used, discards them, and they are not printed later.
PendingPrintedOnceOrDiscardedByAnyStore ==
    impl = "freshvars" =>
        \A in \in SeqInstrs :
            /\ SilentWhenConfused(in)
            /\ \A v \in {1, 2, 3} :
                  /\ PrintedOnlyWhenUsed(in, v)
                  /\ PrintedOnce(in, v)
                  /\ Discarded(in, v)
                  /\ DiscardedByAnyStore(in, v)

\* C16, amended: the same, a store discarding the pending messages of the
\* slot in a state that is not confused; in a confused state they stay
\* with the slot and nothing is printed any more.
PendingPrintedOnceOrDiscarded ==
    impl = "freshvars" =>
        \A in \in SeqInstrs :
            /\ SilentWhenConfused(in)
            /\ \A v \in {1, 2, 3} :
                  /\ PrintedOnlyWhenUsed(in, v)
                  /\ PrintedOnce(in, v)
                  /\ Discarded(in, v)

\* The pruning at an allocating call has printed the message that was
\* pending on a slot which is protected by now, and none is pending.
PendingPrintedByPruning ==
    /\ impl = "freshvars"
    /\ last = "alloc"
    /\ \E v \in {1, 2, 3} :
          /\ InVars(fresh.fv.vars, v) /\ fresh.fv.vars[v] > 0
          /\ LineInfo("unprotected variable", v, 1) \in fresh.msgs
          /\ Pending(fresh.fv, v) = {}

\* The operands of a call that are of the given kinds.
OperandsOfKind(inst, ks) ==
    {j \in 1..Len(inst) : kindOfOperand(inst[j]) \in ks}

\* The warnings printed on the i-th call.
WarningsOn(i) == Cardinality({j \in 1..Len(out) : out[j] = i})

\* C17: a call the scanner is done with has one warning when at least two
\* of its operands are ALLOCATING or FRESH and at least one is FRESH, and
\* none otherwise; a call it is not done with has none.
WarningIffTwoAllocatingOneFresh ==
    \A i \in 1..MaxCalls :
        WarningsOn(i) =
            IF /\ i <= scanned
               /\ Cardinality(OperandsOfKind(callInfos[i],
                                              {AK_ALLOCATING, AK_FRESH})) >= 2
               /\ OperandsOfKind(callInfos[i], {AK_FRESH}) # {}
            THEN 1 ELSE 0

\* Two calls are done: the first has two ALLOCATING operands, none FRESH,
\* and no warning; the second has a FRESH and an ALLOCATING operand and
\* its warning.
WarnedOnSecondCallOnly ==
    /\ scanned = 2
    /\ Cardinality(OperandsOfKind(callInfos[1], {AK_ALLOCATING})) = 2
    /\ OperandsOfKind(callInfos[2], {AK_ALLOCATING}) # {}
    /\ OperandsOfKind(callInfos[2], {AK_FRESH}) # {}
    /\ out = <<2>>

\* The kind of a value that is no phi node, from what it is: FRESH for the
\* result of a call of a function that allocates and is a possible
\* allocator, ALLOCATING when the function allocates and is none.
KindOfResult(v) ==
    IF v.tag = "call" /\ v.fun \in ModuleFunctions
          /\ v.fun \in AllocatingFunctions
    THEN IF v.fun \in possibleAllocators THEN AK_FRESH ELSE AK_ALLOCATING
    ELSE AK_NOALLOC

Largest(S) == CHOOSE k \in S : \A l \in S : l <= k

\* C18: every operand of the current call that has been classified got
\* the kind of the result it is, and a phi node the largest kind of its
\* incoming values (NOALLOC without any).
OperandKindsAsDocumented ==
    \A j \in 1..Len(kinds) :
        LET o == callInfos[Len(callInfos)][j]
        IN  kinds[j] =
                IF o.tag = "phi"
                THEN Largest({AK_NOALLOC} \cup
                         {KindOfResult(o.incoming[i]) :
                              i \in 1..Len(o.incoming)})
                ELSE KindOfResult(o)

\* A call of a possible allocator that does not allocate has been
\* classified NOALLOC, and a phi node with a fresh incoming value FRESH.
PhiAndPlainAllocatorClassified ==
    /\ Len(kinds) = 3
    /\ callInfos[Len(callInfos)][1] = CallValue("getAttrib0")
    /\ callInfos[Len(callInfos)][2].tag = "phi"
    /\ kinds = <<AK_NOALLOC, AK_FRESH, AK_NOALLOC>>

\* C19: a state taken off the work list whose block is on an error path
\* is dropped: the messages, the tally and the done set stay as they are,
\* the work list only loses the state, and no instruction or terminator of
\* an error block is ever visited.
ErrorBlockSkipped ==
    /\ [](pc \in {"block", "term"} => s.bb \notin fun.errorBasicBlocks)
    /\ [][CanTake /\ Top.bb \in fun.errorBasicBlocks
            => /\ msg' = msg
               /\ refinableInfos' = refinableInfos
               /\ doneSet' = doneSet
               /\ workList' = Pop
               /\ pc' = "loop"]_vars

\* The state of the error block of the function with an error path has
\* been taken off the work list and dropped.
ErrorStateDropped ==
    /\ fun.errorBasicBlocks # {}
    /\ pc = "loop"
    /\ s.bb \in fun.errorBasicBlocks
    /\ \E t \in doneSet : t.bb \in fun.errorBasicBlocks
    /\ \A i \in 1..Len(workList) : workList[i].bb \notin fun.errorBasicBlocks

\* The count instruction in unprotects by, known or not: a constant, or
\* the counter variable when the balance state has its exact value.
HasKnownCount(in) ==
    /\ in.op = "call" /\ in.callee = "Rf_unprotect"
    /\ \/ in.unpKind = "const"
       \/ /\ in.unpKind = "load" /\ in.unpVar # NoVar
          /\ bal.counterVar = in.unpVar /\ bal.countState = "EXACT"

KnownCount(in) == IF in.unpKind = "const" THEN in.unpConst ELSE bal.count

\* Handling in has taken the top k entries off the protect stack of r and
\* has decremented the protect count of a slot in vars once for each of
\* its entries taken off, not below zero.
TopRemoved(r, after, k) ==
    LET n == Len(r.fv.pstack)
        popped == SubSeq(r.fv.pstack, n - k + 1, n)
    IN  /\ after.fv.pstack = SubSeq(r.fv.pstack, 1, n - k)
        /\ DOMAIN after.fv.vars = DOMAIN r.fv.vars
        /\ \A v \in DOMAIN r.fv.vars :
               after.fv.vars[v] =
                   IF r.fv.vars[v] > Occurrences(popped, v)
                   THEN r.fv.vars[v] - Occurrences(popped, v) ELSE 0

\* C20: in a state that is not confused, an unprotect by a known count
\* that is not above the size of the protect stack takes exactly the top
\* entries off, anonymous or not, and decrements the protect counts of
\* their slots, in either implementation.
UnprotectRemovesTop ==
    impl # "none" /\ ~fresh.fv.confused =>
        \A in \in UnprotectInstrs :
            HasKnownCount(in) /\ KnownCount(in) <= Len(fresh.fv.pstack)
                => TopRemoved(fresh, After(in), KnownCount(in))

\* C21: an unprotect(1) that pops a slot whose protect count is 0 leaves
\* the count at 0, prints nothing and adds nothing to the tally of
\* refinable findings, in either implementation.
ClampIsSilent ==
    impl # "none" /\ ~fresh.fv.confused /\ fresh.fv.pstack # <<>> =>
        LET v == fresh.fv.pstack[Len(fresh.fv.pstack)]
            after == After(Unprotect(1, 1)[1])
        IN  v # NoVar /\ InVars(fresh.fv.vars, v) /\ fresh.fv.vars[v] = 0
                => /\ after.fv.vars[v] = 0
                   /\ after.msgs = {}
                   /\ after.refinableInfos = 0

\* The finding of an unprotect by more than the protect stack holds.
TooManyUnprotected(in) ==
    LineInfo("attempt to unprotect more items than protected", NoVar, in.line)

\* Handling in leaves the protect stack and the protect counts alone.
StackAndCountsKept(in) ==
    /\ After(in).fv.pstack = fresh.fv.pstack
    /\ After(in).fv.vars = fresh.fv.vars

\* C22, as stated: an unprotect by a known count above the size of the
\* protect stack reports the finding, sets the confused flag and leaves
\* the protect stack and the protect counts as they are.
UnprotectBeyondStackConfuses ==
    impl # "none" =>
        \A in \in UnprotectInstrs :
            HasKnownCount(in) /\ KnownCount(in) > Len(fresh.fv.pstack)
                => /\ TooManyUnprotected(in) \in After(in).msgs
                   /\ After(in).fv.confused
                   /\ StackAndCountsKept(in)

\* C22, amended: the current implementation does so in a state that is
\* not confused, and does nothing in a confused one; the earlier
\* implementation, which has no confused flag and knows the constant
\* count only, reports the finding and leaves the stack and the counts.
UnprotectBeyondStackReported ==
    \A in \in UnprotectInstrs :
        /\ impl = "freshvars" /\ HasKnownCount(in)
              /\ KnownCount(in) > Len(fresh.fv.pstack)
              => IF fresh.fv.confused
                 THEN After(in).msgs = {} /\ After(in).fv = fresh.fv
                 ELSE /\ TooManyUnprotected(in) \in After(in).msgs
                      /\ After(in).refinableInfos = 1
                      /\ After(in).fv.confused
                      /\ StackAndCountsKept(in)
        /\ impl = "earlier" /\ in.unpKind = "const"
              /\ in.unpConst > Len(fresh.fv.pstack)
              => /\ TooManyUnprotected(in) \in After(in).msgs
                 /\ ~After(in).fv.confused
                 /\ StackAndCountsKept(in)

\* An unprotect by more than the protect stack holds has been handled:
\* the finding is there, the state is confused, the stack still holds its
\* entry and the slot its protect count.
UnprotectedBeyondStack ==
    /\ impl = "freshvars"
    /\ last = "Rf_unprotect"
    /\ TooManyUnprotected(Instr) \in fresh.msgs
    /\ fresh.fv.confused
    /\ Len(fresh.fv.pstack) = 1
    /\ \E v \in DOMAIN fresh.fv.vars : fresh.fv.vars[v] = 1

\* The protect calls that push: protect and protect-with-index.
Pushing(in) ==
    in.op = "call" /\ in.callee \in {"Rf_protect", "R_ProtectWithIndex"}

\* Handling in has reported that the protect stack is too deep and has
\* unprotected everything: the stack is empty, the slots in vars have
\* protect count 0.
Emptied(in) ==
    /\ \E m \in After(in).msgs : m.kind = "protect stack is too deep"
    /\ After(in).fv.pstack = <<>>
    /\ \A v \in DOMAIN After(in).fv.vars : After(in).fv.vars[v] = 0
    /\ DOMAIN After(in).fv.vars \subseteq DOMAIN fresh.fv.vars

\* C23, as stated: a protect or protect-with-index that meets a protect
\* stack of MAX_PSTACK_SIZE entries reports that the stack is too deep,
\* empties it, sets every protect count to 0 and sets the confused flag.
ProtectAtCapConfuses ==
    impl # "none" /\ Len(fresh.fv.pstack) = MAX_PSTACK_SIZE =>
        \A in \in ProtectInstrs :
            Pushing(in) => Emptied(in) /\ After(in).fv.confused

\* C23, amended: the current implementation does so in a state that is
\* not confused, and does nothing in a confused one; the earlier
\* implementation, which has no confused flag, reports, empties the stack
\* and sets the counts to 0.
ProtectAtCapUnprotectsAll ==
    Len(fresh.fv.pstack) = MAX_PSTACK_SIZE =>
        \A in \in ProtectInstrs :
            Pushing(in) =>
                /\ impl = "freshvars" =>
                      IF fresh.fv.confused
                      THEN After(in).msgs = {} /\ After(in).fv = fresh.fv
                      ELSE /\ Emptied(in)
                           /\ After(in).refinableInfos = 1
                           /\ After(in).fv.confused
                /\ impl = "earlier" =>
                      Emptied(in) /\ ~After(in).fv.confused

\* A protect has met a full protect stack that held a protected slot:
\* the slot is in vars with protect count 0, the state is confused.
ProtectedSlotUnprotectedAtCap ==
    /\ impl = "freshvars"
    /\ last \in {"Rf_protect", "R_ProtectWithIndex"}
    /\ \E m \in fresh.msgs : m.kind = "protect stack is too deep"
    /\ fresh.fv.pstack = <<>>
    /\ fresh.fv.confused
    /\ \E v \in DOMAIN fresh.fv.vars : fresh.fv.vars[v] = 0

\* The protect counts after a re-protect of the checked slot v: v has
\* the count it had when that was above 0, and 1 otherwise; the other
\* slots are as they were.
CountsAfterReprotect(vs, v) ==
    IF InVars(vs, v) /\ vs[v] > 0 THEN vs ELSE VarsPut(vs, v, 1)

\* Handling the re-protect in leaves the stack, the pending messages and
\* the flag, reports no finding, and sets the counts.
Reprotected(in) ==
    /\ After(in).fv.pstack = fresh.fv.pstack
    /\ After(in).fv.condMsgs = fresh.fv.condMsgs
    /\ After(in).fv.confused = fresh.fv.confused
    /\ After(in).refinableInfos = 0
    /\ \A m \in After(in).msgs : m.kind = "ignoring variable"
    /\ After(in).fv.vars =
           IF in.argLoad # NoVar /\ isVarCheckedFresh(in.argLoad)
           THEN CountsAfterReprotect(fresh.fv.vars, in.argLoad)
           ELSE fresh.fv.vars

\* C24, as stated: a re-protect leaves the protect stack, never reports
\* that the stack is too deep, leaves a protect count above 0, sets a
\* count of 0 to 1, inserts an absent checked slot with count 1, and
\* changes nothing for a slot that is unidentified or not checked.
ReprotectSetsCount ==
    impl = "freshvars" =>
        \A in \in ProtectInstrs : in.callee = "R_Reprotect" => Reprotected(in)

\* C24, amended: the same in a state that is not confused; in a confused
\* state a re-protect changes nothing.
ReprotectSetsCountUnlessConfused ==
    impl = "freshvars" =>
        \A in \in ProtectInstrs :
            in.callee = "R_Reprotect" =>
                IF fresh.fv.confused
                THEN After(in).fv = fresh.fv /\ After(in).msgs = {}
                ELSE Reprotected(in)

\* A re-protect has met a full protect stack: the slot, which is not on
\* the stack, has protect count 1, and the stack is as full as it was.
ReprotectedAtCap ==
    /\ impl = "freshvars"
    /\ last = "R_Reprotect"
    /\ ~fresh.fv.confused
    /\ fresh.msgs = {}
    /\ Len(fresh.fv.pstack) = MAX_PSTACK_SIZE
    /\ InVars(fresh.fv.vars, 1) /\ fresh.fv.vars[1] = 1
    /\ Occurrences(fresh.fv.pstack, 1) = 0

\* C25: in a state that is not confused, a call of a function that does
\* not allocate drops from vars, with their pending messages, the slots
\* that are not possibly used after it.
NonAllocatingCallPrunes ==
    impl # "none" /\ ~fresh.fv.confused =>
        \A in \in CallInstrs :
            in.callee = "use" /\ ~in.allocating =>
                \A v \in DOMAIN fresh.fv.vars \ in.possiblyUsed :
                    /\ ~InVars(After(in).fv.vars, v)
                    /\ Pending(After(in).fv, v) = {}

\* The pruning of the implementation the sequence runs, on the state the
\* sequence is in.
PrunedBy(i, in) ==
    IF i = "freshvars" THEN Pruned(in)
    ELSE pruneFreshVarsOld(in, [fresh EXCEPT !.msgs = {}])

\* Slot v of vars is dropped with its pending messages, none printed.
Dropped(p, v) ==
    /\ ~InVars(p.fv.vars, v)
    /\ Pending(p.fv, v) = {}
    /\ Pending(fresh.fv, v) \cap p.msgs = {}

\* Slot v of vars is kept with its protect count; its pending messages
\* are printed and removed, or left as they are.
Kept(p, v, printed) ==
    /\ InVars(p.fv.vars, v) /\ p.fv.vars[v] = fresh.fv.vars[v]
    /\ IF printed
       THEN Pending(fresh.fv, v) \subseteq p.msgs /\ Pending(p.fv, v) = {}
       ELSE /\ Pending(fresh.fv, v) \cap p.msgs = {}
            /\ Pending(p.fv, v) = Pending(fresh.fv, v)

\* The pruning is what the handling of the allocating call in does to
\* vars, and what it prints is printed by the call.
PruningOfCall(i, in) ==
    /\ After(in).fv.vars = PrunedBy(i, in).fv.vars
    /\ PrunedBy(i, in).msgs \subseteq After(in).msgs

\* C26, as stated: the pruning at an allocating call, in a state that is
\* not confused, drops every slot of vars that is not possibly used, with
\* its pending messages unprinted; prints and removes the pending
\* messages of a slot that stays and is not possibly killed; leaves a slot
\* that is possibly used and possibly killed as it is.
PruningFollowsLiveness ==
    impl # "none" /\ ~fresh.fv.confused =>
        \A in \in CallInstrs :
            in.allocating /\ in.callee = "alloc" =>
                /\ PruningOfCall(impl, in)
                /\ \A v \in DOMAIN fresh.fv.vars :
                      IF v \notin in.possiblyUsed
                      THEN Dropped(PrunedBy(impl, in), v)
                      ELSE Kept(PrunedBy(impl, in), v,
                                v \notin in.possiblyKilled)

\* C26, amended: so does the current implementation; the pruning of the
\* earlier one drops the slots that are not possibly used and prints
\* nothing, whether a slot that stays is possibly killed or not.
PruningFollowsLivenessOfItsVersion ==
    impl # "none" /\ ~fresh.fv.confused =>
        \A in \in CallInstrs :
            in.allocating /\ in.callee = "alloc" =>
                /\ PruningOfCall(impl, in)
                /\ \A v \in DOMAIN fresh.fv.vars :
                      IF v \notin in.possiblyUsed
                      THEN Dropped(PrunedBy(impl, in), v)
                      ELSE Kept(PrunedBy(impl, in), v,
                                impl = "freshvars"
                                    /\ v \notin in.possiblyKilled)

\* An allocating call has been handled with two slots in vars: the
\* message of one is printed and no longer pending, the other slot has
\* kept its pending message.
OnePrintedOneKeptPending ==
    /\ impl = "freshvars"
    /\ last = "alloc"
    /\ ~fresh.fv.confused
    /\ InVars(fresh.fv.vars, 1) /\ InVars(fresh.fv.vars, 2)
    /\ LineInfo("unprotected variable", 1, 1) \in fresh.msgs
    /\ Pending(fresh.fv, 1) = {}
    /\ Pending(fresh.fv, 2) # {}

\* C27: at an allocating call handled in a state that is not confused,
\* every slot of vars that is possibly used afterwards, has protect count
\* 0 and is not passed to the call gets its message, printed or pending,
\* whatever the protect counts of the other slots, in either
\* implementation.
EveryUnprotectedSlotReported ==
    impl # "none" /\ ~fresh.fv.confused =>
        \A in \in CallInstrs :
            in.allocating /\ in.callee = "alloc" =>
                \A v \in DOMAIN fresh.fv.vars \cap in.possiblyUsed :
                    fresh.fv.vars[v] = 0 /\ v \notin passedVars(in)
                        => LineInfo("unprotected variable", v, in.line)
                               \in After(in).msgs
                                      \cup Pending(After(in).fv, v)


\* Loads of a slot whose single consumer is a setter call of three
\* arguments with the load of a slot as first argument; the setter does or
\* does not allocate, and is or is not callee-safe for the parameter.
SetterLoads ==
    {[LoadVar(v, 1) EXCEPT
         !.users = <<CallUser("SET_VECTOR_ELT", 3, TRUE, w, FALSE)>>,
         !.consParams = 3, !.consArgIdx = 2,
         !.consAllocating = a, !.consCalleeSafeArg = c] :
        v \in {1, 2}, w \in {1, 2}, a \in BOOLEAN, c \in BOOLEAN}

\* The first argument of the setter is another slot and is not fresh.
SetterProtects(in) ==
    LET w == in.users[1].firstArg
    IN  /\ InVars(fresh.fv.vars, in.var)
        /\ w # in.var
        /\ (~InVars(fresh.fv.vars, w) \/ fresh.fv.vars[w] > 0)

\* The messages the load itself makes on its slot, printed or pending.
MadeByLoad(in) ==
    {m \in (After(in).msgs \ Pending(fresh.fv, in.var))
               \cup Pending(After(in).fv, in.var) :
        m.kind \in {"calling allocating function with a fresh pointer",
                    "may destroy its unprotected argument"}}

\* C28: after a load of a slot of vars that a setter of more than one
\* argument consumes, the first argument being the load of another slot
\* that is not fresh, the slot is not in vars, and the load has made no
\* "fresh pointer" message and no conditional message.
SetterLoadUnfreshes ==
    impl # "none" =>
        \A in \in SetterLoads :
            SetterProtects(in) =>
                /\ ~InVars(After(in).fv.vars, in.var)
                /\ MadeByLoad(in) = {}


\* Loads of a slot whose value is stored to a location that is no local
\* slot: a global, or a field derived from a local.
NonLocalStoreLoads ==
    {[LoadVar(v, 1) EXCEPT !.users = <<StoreUser(FALSE)>>] : v \in {1, 2}}

\* C29: after a load of a slot of vars whose value is stored to a location
\* that is no local slot, the slot is not in vars.
StoreToNonLocalUnfreshes ==
    impl # "none" =>
        \A in \in NonLocalStoreLoads :
            InVars(fresh.fv.vars, in.var) => ~InVars(After(in).fv.vars, in.var)


\* x = alloc() where the result of the call has, beside the store, the
\* users given: none, a call that neither protects nor sets, or a setter
\* that takes the result as its second argument (which the walk of
\* handleStore does not count as implicit protection).
UnconsumedAllocStores ==
    {[StoreAlloc(v, 1) EXCEPT !.valUsers = vu] :
        v \in {1, 2},
        vu \in {<<>>, <<CallUser("use", 1, FALSE, NoVar, FALSE)>>,
                <<CallUser("SETCAR", 2, TRUE, 3, TRUE)>>}}

\* PROTECT(x = alloc()) and PROTECT_WITH_INDEX(x = alloc(), &ipx): the
\* store, its value being passed to the function named.
ProtectedAllocStore(v, name) ==
    [StoreAlloc(v, 1) EXCEPT
        !.valUsers = <<CallUser(name, 1, FALSE, NoVar, FALSE)>>]

\* The store leaves its slot in vars with protect count 0 and leaves the
\* protect stack.
MadeFresh(in) ==
    /\ InVars(After(in).fv.vars, in.var)
    /\ After(in).fv.vars[in.var] = 0
    /\ After(in).fv.pstack = fresh.fv.pstack

\* C30: a store to a checked slot of the result of a possible allocator
\* that no protect, protect-with-index or re-protect call and no
\* implicitly protecting setter consumes leaves the slot in vars with
\* protect count 0 and leaves the protect stack; and a store whose value
\* R_ProtectWithIndex consumes does what a store whose value Rf_protect
\* consumes does.
StoreOfAllocatorResultIsFresh ==
    impl # "none" =>
        /\ \A in \in UnconsumedAllocStores :
               isVarCheckedFresh(in.var) => MadeFresh(in)
        /\ \A v \in {1, 2} :
               After(ProtectedAllocStore(v, "R_ProtectWithIndex")).fv
                   = After(ProtectedAllocStore(v, "Rf_protect")).fv


\* The visit of UNPROTECT(guard == 0 ? A : B) or UNPROTECT(guard != 0 ? A
\* : B), guard an integer guard, in a run with the integer guards, that the
\* run is not given up in.
SelectVisited ==
    /\ pc = "block" /\ pc' # "returned"
    /\ intGuardsEnabled
    /\ Visited.op = "call" /\ Visited.callee = "Rf_unprotect"
    /\ Visited.unpKind = "select"
    /\ Visited.selGuard \in fun.intGuardVars

\* The constant the comparison selects for the guard's value.
Selects(in, gs) ==
    IF \/ (gs = "ZERO" /\ in.selTrueWhenEqual)
       \/ (gs = "NONZERO" /\ ~in.selTrueWhenEqual)
    THEN in.selTrue ELSE in.selFalse

NegativeDepthAt(line) == LineInfo("has negative depth", NoVar, line)

\* The depth after the visit: unchanged for a guard that is UNKNOWN, less
\* the constant selected otherwise.
DepthBySelection ==
    LET gs == GuardState(s.intGuards, Visited.selGuard)
    IN  s'.balance.depth =
            IF gs = "UNKNOWN" THEN s.balance.depth
            ELSE s.balance.depth - Selects(Visited, gs)

\* C31, as stated: the depth goes down by the constant selected, a depth
\* that gets negative is reported, and an UNKNOWN guard leaves the depth.
SelectedUnprotectReportsNegative ==
    [][SelectVisited =>
          /\ DepthBySelection
          /\ (s'.balance.depth < s.balance.depth /\ s'.balance.depth < 0
                 => NegativeDepthAt(Visited.line) \in msg')]_vars

\* C31, amended: the depth goes down by the constant selected and an
\* UNKNOWN guard leaves the depth; a depth that gets negative is reported
\* exactly when the count state is not DIFF.
SelectedUnprotectReportsNegativeUnlessDiff ==
    [][SelectVisited =>
          /\ DepthBySelection
          /\ (s'.balance.depth < s.balance.depth /\ s'.balance.depth < 0
                 => (NegativeDepthAt(Visited.line) \in msg'
                        <=> s.balance.countState # "DIFF"))]_vars

\* A run with the integer guards that is not given up has visited flag = 1;
\* PROTECT(alloc()); UNPROTECT(flag == 0 ? 1 : 2): the guard is NONZERO, the
\* depth went from 1 down by 2 and the negative depth is reported.
SelectedUnprotectWentNegative ==
    /\ pc = "term"
    /\ intGuardsEnabled
    /\ fun.blocks = SelectedOn(1, TRUE, 1, 2).blocks
    /\ s.balance.depth = 0 - 1
    /\ NegativeDepthAt(3) \in msg


\* The transfers of one instruction, one after the other: fresh vars on
\* the state as it is before the instruction, then the balance, then the
\* integer guards and the conditional unprotect when the integer guards
\* are on, then the SEXP guards when they are on.
OneAfterTheOther(in) ==
    LET F == freshVarsStep(in, Visiting)
        B == handleBalanceForNonTerminator(in, F, fun)
        G == IF intGuardsEnabled
             THEN handleUnprotectWithIntGuard(in,
                      handleIntGuardsForNonTerminator(in, B, fun), fun)
             ELSE B
    IN  IF sexpGuardsEnabled
        THEN handleSEXPGuardsForNonTerminator(in, G, fun)
        ELSE G

\* C32: a visit of an instruction that does not end the run leaves what
\* the transfers leave when they run in the order fresh vars (on the balance
\* of before the instruction), balance, integer guards, conditional
\* unprotect, SEXP guards, a domain that is off being skipped.
TransfersRunInOrder ==
    [][pc = "block" /\ pc' # "returned" =>
          \E after \in {OneAfterTheOther(Visited)} :
              /\ s' = after.s
              /\ msg' = after.msgs
              /\ refinableInfos' = after.refinableInfos]_vars

\* UNPROTECT(nprotect) of Counted has been visited: fresh vars has popped
\* the protect stack by the count the balance held before the instruction,
\* and the balance has gone on to the count state DIFF.
CounterSeenBeforeBalance ==
    /\ pc = "term"
    /\ fun.blocks = Counted.blocks
    /\ s.balance.countState = "DIFF"
    /\ s.balance.depth = 0
    /\ s.freshVars.pstack = <<>>
    /\ ~s.freshVars.confused


\* The successor states a terminator proposes: those of the first handler,
\* in the order balance, SEXP guards, integer guards, that takes care of
\* the successors; a clone of the state for each CFG successor when none
\* does.  A handler whose domain is off is not asked.
Proposed(t) ==
    LET B == handleBalanceForTerminator(t, Visiting)
        S == handleSEXPGuardsForTerminator(t, B.X, fun)
        I == handleIntGuardsForTerminator(t, B.X, fun)
    IN  IF B.consumed THEN B.succs
        ELSE IF sexpGuardsEnabled /\ S.consumed THEN S.succs
        ELSE IF intGuardsEnabled /\ I.consumed THEN I.succs
        ELSE [i \in 1..Len(t.succ) |-> clone(B.X.s, t.succ[i])]

RefinableRunReturnsEmpty ==
    pc = "returned" /\ restartable /\ refinableInfos > 0
        => doneSet = {} /\ workList = <<>>

\* A run that can be escalated is given up by the transfers of the
\* instruction that makes the tally positive: the run returns with the work
\* list and the visited set emptied.
AbandonedAtInstruction ==
    [][pc = "block" /\ restartable /\ refinableInfos' > 0
          => pc' = "returned" /\ doneSet' = {} /\ workList' = <<>>]_vars

\* A finding at a terminator is seen at the head of the loop: no state is
\* taken; the run returns, with the visited set emptied when the work list
\* still held a state, and with the visited set as it is when the work list
\* was empty.
AbandonedAtLoopHead ==
    [][pc = "loop" /\ restartable /\ refinableInfos > 0
          => /\ pc' = "returned"
             /\ workList' = <<>>
             /\ doneSet' = IF workList = <<>> THEN doneSet ELSE {}]_vars

\* A run that cannot be escalated returns from the head of the loop only,
\* with an empty work list or too many states.
NeverCutShort ==
    [][~restartable /\ pc \in {"loop", "block", "term"} /\ pc' = "returned"
          => pc = "loop" /\ (workList = <<>> \/ tooManyStates(doneSet))]_vars

\* C34, amended: as stated, but for a finding made at the terminator of
\* the last state of the work list: the loop ends then, and the run returns
\* with the visited set still holding its states.
RefinableRunAbandoned ==
    AbandonedAtInstruction /\ AbandonedAtLoopHead /\ NeverCutShort

\* A run that can be escalated has returned with a finding made at the
\* terminator of the last state: the visited set is not empty.
ReturnedWithVisitedStates ==
    /\ pc = "returned"
    /\ restartable /\ refinableInfos > 0
    /\ workList = <<>>
    /\ doneSet # {}


\* The stores to R_PPStackTop: of the load of a slot, of something else.
StackTopStores == {in \in StackTopInstrs : in.op = "store" /\ in.ptr = "ppStackTop"}

\* The store restores the stack top from the recognised top-save slot.
RestoresSavedTop(in) ==
    in.valKind = "load" /\ in.valVar # NoVar /\ bal.topSaveVar = in.valVar

Confuses(in, kind) ==
    /\ LineInfo(kind, NoVar, in.line) \in After(in).msgs
    /\ After(in).fv.confused

\* What the claim says of a store to R_PPStackTop.
StackTopStored(in) ==
    IF RestoresSavedTop(in)
    THEN /\ bal.savedDepth >= 0
         /\ ~After(in).aborted
         /\ IF bal.savedDepth < Len(fresh.fv.pstack)
            THEN /\ After(in).fv.pstack
                        = SubSeq(fresh.fv.pstack, 1, bal.savedDepth)
                 /\ After(in).fv.confused = fresh.fv.confused
            ELSE IF bal.savedDepth = Len(fresh.fv.pstack)
            THEN After(in).fv = fresh.fv
            ELSE /\ Confuses(in, "attempt to restore protection stack to higher depth")
                 /\ After(in).fv.pstack = fresh.fv.pstack
    ELSE Confuses(in, "manipulates PPStackTop directly")

\* C35, as stated: a restore of the stack top from the top-save slot finds
\* a saved depth that is not negative and pops the protect stack down to
\* it, leaves it when the depths are equal, and reports and sets confused
\* without a change of the stack when the saved depth is greater; any other
\* store to the stack top reports and sets confused.
StackTopStoreHandled ==
    impl = "freshvars" => \A in \in StackTopStores : StackTopStored(in)

\* C35, amended: the same in a state that is not confused; in a confused
\* state a store to the stack top changes nothing and reports nothing.
StackTopStoreHandledUnlessConfused ==
    impl = "freshvars" =>
        \A in \in StackTopStores :
            IF fresh.fv.confused
            THEN After(in).fv = fresh.fv /\ After(in).msgs = {}
                    /\ ~After(in).aborted
            ELSE StackTopStored(in)

\* The stack top has been restored to a saved depth of 0, below the size of
\* the protect stack: the stack has been popped to the saved depth.  The
\* slot popped had been given a fresh value since its protection, so that
\* its protect count was 0 already: the tally of this store, which has no
\* message, shows that unprotectOne has run.
StackPoppedToSavedDepth ==
    /\ impl = "freshvars"
    /\ last = "store"
    /\ bal.topSaveVar # NoVar /\ bal.savedDepth = 0 /\ bal.depth = 0
    /\ ~fresh.fv.confused
    /\ fresh.fv.pstack = <<>>
    /\ fresh.msgs = {}
    /\ fresh.refinableInfos = 1


\* PROTECT(x) and PROTECT_WITH_INDEX(x, &ipx) of a slot that has a use
\* other than a load or a store.
UncheckedProtects ==
    {in \in ProtectInstrs :
        /\ in.callee \in {"Rf_protect", "R_ProtectWithIndex"}
        /\ in.argLoad # NoVar /\ in.argLoad \notin OnlyLoadStoreUses}

OnlyCheckedInVars == \A v \in DOMAIN fresh.fv.vars : v \in OnlyLoadStoreUses

PushedAnonymous(in) ==
    /\ After(in).fv.pstack = Append(fresh.fv.pstack, NoVar)
    /\ ~InVars(After(in).fv.vars, in.argLoad)

\* C36, as stated: every slot in vars has only load and store uses, and
\* the protection of a slot that has another use pushes an anonymous entry
\* and does not add the slot to vars.
OnlyCheckedSlotsTracked ==
    impl # "none" =>
        /\ OnlyCheckedInVars
        /\ \A in \in UncheckedProtects : PushedAnonymous(in)

\* C36, amended: in the current implementation every slot in vars has only
\* load and store uses; the protection of a slot that has another use
\* pushes an anonymous entry when the state is not confused and the
\* protect stack is not full, changes nothing when the state is confused,
\* and empties a full protect stack; the slot is never added to vars.
OnlyCheckedSlotsTrackedByFilter ==
    impl = "freshvars" =>
        /\ OnlyCheckedInVars
        /\ \A in \in UncheckedProtects :
               /\ ~InVars(After(in).fv.vars, in.argLoad)
               /\ IF fresh.fv.confused THEN After(in).fv = fresh.fv
                  ELSE IF Len(fresh.fv.pstack) = MAX_PSTACK_SIZE
                  THEN After(in).fv.pstack = <<>>
                  ELSE PushedAnonymous(in)

\* A slot whose address is taken has just been protected, the filter being
\* asked about it for the first time: the entry pushed is anonymous and the
\* slot is not in vars.
UncheckedSlotPushedAnonymous ==
    /\ impl = "freshvars"
    /\ last = "Rf_protect"
    /\ LineInfo("ignoring variable", 3, 0) \in fresh.msgs
    /\ fresh.fv.pstack # <<>>
    /\ fresh.fv.pstack[Len(fresh.fv.pstack)] = NoVar
    /\ ~InVars(fresh.fv.vars, 3)
    /\ ~fresh.fv.confused


\* C38: two states of the visited set that the equality predicate takes
\* for equal have the same hashcode, so that the visited set holds no two
\* states that are equal.
EqualStatesHashAlike ==
    \A a, b \in doneSet :
        BcheckStateTy_equal(a, b) => a.hashcode = b.hashcode /\ a = b


\* The states of the visited set that have been taken off the work list.
Dequeued == doneSet \ {workList[i] : i \in 1..Len(workList)}

\* C37: a state that is taken off the work list to be processed is equal
\* to none of the states that were taken off it before: no state is
\* processed more than once.
NoStateProcessedTwice ==
    [][pc = "loop" /\ pc' \in {"block", "term"} =>
          ~\E e \in Dequeued : BcheckStateTy_equal(e, s')]_vars

\* C39: every slot that has pending messages is a slot of vars, so that the
\* pruning on liveness, which walks vars only, reaches the messages of every
\* slot that dies.
PendingSlotsAreInVars ==
    \A v \in CondKeys(fresh.fv.condMsgs) : InVars(fresh.fv.vars, v)

\* C40: the confused flag of the fresh-vars state is never reset: whatever
\* instruction is handled in a confused state, the state after it is
\* confused, with the vars, the protect stack and the pending messages it
\* had before.
ConfusedStateIsFrozen ==
    (impl = "freshvars" /\ fresh.fv.confused) =>
        \A in \in SeqInstrs :
            /\ After(in).fv.confused
            /\ After(in).fv.vars = fresh.fv.vars
            /\ After(in).fv.pstack = fresh.fv.pstack
            /\ After(in).fv.condMsgs = fresh.fv.condMsgs

\* A confused state with a fresh slot has handled a store, and a store to
\* that slot is among the instructions it may see next.
StoreHandledWhenConfused ==
    /\ impl = "freshvars"
    /\ fresh.fv.confused
    /\ last = "store"
    /\ \E in \in StoreInstrs :
          in.ptr = "slot" /\ InVars(fresh.fv.vars, in.var)

====
